---- MODULE Spec2Model ----
(***************************************************************************)
(* State-machine model of the mindarch knowledge-graph core:               *)
(*   - SemanticTripleService (create / delete / bulk_create) over the      *)
(*     unit and triple collections, handlers interleaving at their awaits; *)
(*   - SemanticTripleRepository.find_path;                                 *)
(*   - KnowledgeGraphService / KnowledgeGraphRepository (create,           *)
(*     add_units, add_triples, get_graph_visual_data);                     *)
(*   - KnowledgeUnitExtractor (_split_text, _deduplicate_units) and        *)
(*     RelationExtractor (pair selection, batch loop);                     *)
(*   - ImportManager (registry, cancel / delete, the background task).     *)
(***************************************************************************)
EXTENDS Integers, Sequences, FiniteSets, TLC

VARIABLES
    storeRejectsDollar, \* the document store refuses "$"-prefixed field names under $set
    units,              \* ObjectIds of the documents of the knowledge_units collection
    unitDocs,           \* per unit: metrics.outgoing_relations, metrics.incoming_relations, literal "$inc" field
    triples,            \* semantic_triples collection, in insertion (created_at) order
    nextTripleId,       \* next ObjectId the store hands to an inserted triple
    calls,              \* SemanticTripleService calls in flight
    callCount,          \* SemanticTripleService calls made so far
    lastCall,           \* the SemanticTripleService call that returned last (<<>> before any)
    pathQuery,          \* the last find_path call: its arguments and its result
    graph,              \* the knowledge_graphs document under study (<<>> before create)
    graphCall,          \* the last KnowledgeGraphService call: operation, arguments, result, state before
    visual,             \* the last get_visual_data call: its arguments, the roots chosen, its result
    split,              \* a _split_text call: text, max_chunk_size, and its chunks once it returned
    dedup,              \* a _deduplicate_units call: the candidate units, and its result
    imported,           \* an import: the units the importer yielded, and what was persisted
    pairs,              \* an extract_relations call: the units and ids, and the pairs submitted
    extraction,         \* the batch loop of extract_relations: the pairs, the calls in flight, the results
    task                \* the import registry and the background task of the import under study

vars == <<storeRejectsDollar, units, unitDocs, triples, nextTripleId, calls,
          callCount, lastCall, pathQuery, graph, graphCall, visual,
          split, dedup, imported, pairs, extraction, task>>

----------------------------------------------------------------------------
(* Bounds *)

MaxCalls == 2       \* SemanticTripleService calls per behaviour

----------------------------------------------------------------------------
(* Identifiers.  A unit ObjectId is one of UnitOids, a triple ObjectId a     *)
(* positive integer.  A caller hands ids over as strings: str(ObjectId) is   *)
(* the lower-case hex form, ObjectId(s) also accepts the upper-case form.    *)

UnitOids == {"u1", "u2", "u3", "u4"}

None == <<>>
Some(x) == <<x>>

\* str(oid): bson renders an ObjectId as lower-case hex
Str(oid) == [oid |-> oid, upper |-> FALSE]

\* the same id written in upper-case hex by a caller
Upper(oid) == [oid |-> oid, upper |-> TRUE]

\* ObjectId(s): bson parses the 24 hex digits case-insensitively
ObjectId(s) == s.oid

\* str.strip() on the predicates of the model: " " is the blank predicate
Strip(s) == IF s = " " THEN "" ELSE s

----------------------------------------------------------------------------
(* Documents *)

NewUnitDoc == [outgoing_relations |-> 0, incoming_relations |-> 0, literal_inc |-> None]

TripleData(s, p, o) == [subject_id |-> s, predicate |-> p, object_id |-> o]

\* SemanticTriple(**triple_data) once subject_id / object_id are ObjectIds
TripleDoc(id, data) ==
    [id |-> id, subject_id |-> ObjectId(data.subject_id),
     predicate |-> data.predicate, object_id |-> ObjectId(data.object_id)]

\* {"$inc": {"metrics.<field>": by}} as the services build it
IncData(field, by) == [op |-> "$inc", field |-> field, by |-> by]

SeqToSet(s) == {s[i] : i \in 1..Len(s)}

\* distinct elements of a sequence, in order of first occurrence (dict key order)
KeysInOrder(s) ==
    LET F[i \in 0..Len(s)] ==
            IF i = 0 THEN <<>>
            ELSE IF s[i] \in SeqToSet(F[i-1]) THEN F[i-1] ELSE Append(F[i-1], s[i])
    IN  F[Len(s)]

Occurrences(s, x) == Cardinality({i \in 1..Len(s) : s[i] = x})

----------------------------------------------------------------------------
(* Store operations *)

\* KnowledgeUnitRepository.get_by_id / SemanticTripleRepository.get_by_id
UnitExists(us, unit_id) == ObjectId(unit_id) \in us

TripleById(ts, triple_id) ==
    LET hit == SelectSeq(ts, LAMBDA t : t.id = ObjectId(triple_id))
    IN  IF hit = <<>> THEN None ELSE Some(hit[1])

\* KnowledgeUnitRepository.update: update_one({"_id": id}, {"$set": {**data, "updated_at": now}}).
\* Every key of data lands under "$set": a caller's {"$inc": ...} is a field named
\* "$inc" to be set, never an increment.  A store that refuses "$"-prefixed field
\* names raises; one that accepts them writes the literal field.
UnitRepoUpdate(docs, us, rejects, unit_id, data) ==
    IF rejects
    THEN [raised |-> TRUE, docs |-> docs]
    ELSE [raised |-> FALSE,
          docs |-> IF ObjectId(unit_id) \in us
                   THEN [docs EXCEPT ![ObjectId(unit_id)].literal_inc = Some(<<data.field, data.by>>)]
                   ELSE docs]

\* SemanticTripleService._validate_triple_data
ValidateTripleData(data) ==
    /\ {"subject_id", "predicate", "object_id"} \subseteq DOMAIN data
    /\ data.subject_id # data.object_id
    /\ Strip(data.predicate) # ""

\* _find_duplicate with the two unit ids of the query swapped
FindDuplicateSwapped(ts, data) ==
    LET hit == SelectSeq(ts, LAMBDA t : /\ t.subject_id = ObjectId(data.object_id)
                                        /\ t.predicate = data.predicate
                                        /\ t.object_id = ObjectId(data.subject_id))
    IN  IF hit = <<>> THEN None ELSE Some(hit[1])

\* SemanticTripleService._find_duplicate: find_one on (subject_id, predicate, object_id)
FindDuplicate(ts, data) ==
    LET hit == SelectSeq(ts, LAMBDA t : /\ t.subject_id = ObjectId(data.subject_id)
                                        /\ t.predicate = data.predicate
                                        /\ t.object_id = ObjectId(data.object_id))
    IN  IF hit = <<>> THEN None ELSE Some(hit[1])

\* SemanticTripleRepository.create / bulk_insert: the store assigns fresh ObjectIds
InsertMany(ts, first, datas) ==
    ts \o [i \in 1..Len(datas) |-> TripleDoc(first + i - 1, datas[i])]

\* SemanticTripleRepository.delete: delete_one({"_id": id})
DeleteOne(ts, triple_id) == SelectSeq(ts, LAMBDA t : t.id # ObjectId(triple_id))

----------------------------------------------------------------------------
(* SemanticTripleService calls.  A call is a record; pc names the await it   *)
(* is suspended at.  solo, pre_* and post_* are history: whether nothing     *)
(* else ran during the call, the stores it started from and returned at.    *)

NewCall(op, data, triple_id, batch, pc, status) ==
    [op |-> op, pc |-> pc, data |-> data, triple_id |-> triple_id, batch |-> batch,
     existing |-> None, found |-> FALSE, created |-> <<>>, idx |-> 1,
     status |-> status, result |-> None, deleted |-> 0,
     pre_docs |-> IF calls = <<>> THEN Some(unitDocs) ELSE None,
     pre_triples |-> IF calls = <<>> THEN triples ELSE <<>>,
     pre_units |-> IF calls = <<>> THEN units ELSE {},
     post_docs |-> None, post_triples |-> <<>>,
     solo |-> calls = <<>>]

\* the history of a call is kept only while it runs alone
NotSolo(cs) ==
    [i \in 1..Len(cs) |->
        [cs[i] EXCEPT !.solo = FALSE, !.pre_docs = None, !.pre_triples = <<>>, !.pre_units = {}]]

Remove(cs, c) == [i \in 1..(Len(cs) - 1) |-> IF i < c THEN cs[i] ELSE cs[i + 1]]

\* record r of a call that has returned (or raised), the stores being docs and ts
Returned(r, status, docs, ts) ==
    [r EXCEPT !.pc = "done", !.status = status,
              !.post_docs = IF r.solo THEN Some(docs) ELSE None,
              !.post_triples = IF r.solo THEN ts ELSE <<>>]

\* the handler starts and suspends at its first await, or returns at once
Invoke(c) ==
    /\ callCount < MaxCalls
    /\ callCount' = callCount + 1
    /\ IF c.pc = "done"
       THEN calls' = NotSolo(calls) /\ lastCall' = Some(Returned(c, c.status, unitDocs, triples))
       ELSE calls' = Append(NotSolo(calls), c) /\ UNCHANGED lastCall

\* call c resumes and suspends again as record r
Continue(c, r) ==
    /\ calls' = [calls EXCEPT ![c] = r]
    /\ UNCHANGED <<callCount, lastCall>>

\* call c resumes and returns (or raises) as record r
Return(c, r, status, docs, ts) ==
    /\ calls' = Remove(calls, c)
    /\ lastCall' = Some(Returned(r, status, docs, ts))
    /\ UNCHANGED callCount

U1 == "u1"
U2 == "u2"

CreateInputs ==
    { TripleData(Str(U1), "p", Str(U2)),
      TripleData(Str(U2), "p", Str(U1)),
      TripleData(Str(U1), " ", Str(U2)),
      TripleData(Str(U1), "p", Str(U1)),
      TripleData(Str(U1), "p", Upper(U1)),
      [subject_id |-> Str(U1), object_id |-> Str(U2)] }

BulkInputs ==
    { <<TripleData(Str(U1), "p", Str(U2))>>,
      <<TripleData(Str(U1), "p", Str(U2)), TripleData(Str(U1), "p", Str(U2))>>,
      <<TripleData(Str(U1), "p", Str(U2)), TripleData(Str(U1), " ", Str(U2))>>,
      <<TripleData(Str(U1), " ", Str(U2))>> }

TripleUnchanged ==
    UNCHANGED <<storeRejectsDollar, pathQuery, graph, graphCall, visual, split, dedup, imported, pairs, extraction, task>>

\* create, up to its first await: validation (lines 20-22)
CreateInvoke(data) ==
    /\ Invoke(IF ValidateTripleData(data)
              THEN NewCall("create", data, None, <<>>, "get_subject", "running")
              ELSE NewCall("create", data, None, <<>>, "done", "error"))
    /\ UNCHANGED <<units, unitDocs, triples, nextTripleId>>
    /\ TripleUnchanged

\* subject = await unit_repository.get_by_id(subject_id)  (line 28)
CreateGetSubject(c) ==
    /\ calls[c].op = "create" /\ calls[c].pc = "get_subject"
    /\ Continue(c, [calls[c] EXCEPT !.found = UnitExists(units, calls[c].data.subject_id),
                                    !.pc = "get_object"])
    /\ UNCHANGED <<units, unitDocs, triples, nextTripleId>>
    /\ TripleUnchanged

\* object = await unit_repository.get_by_id(object_id); missing unit -> error  (lines 29-32)
CreateGetObject(c) ==
    /\ calls[c].op = "create" /\ calls[c].pc = "get_object"
    /\ IF calls[c].found /\ UnitExists(units, calls[c].data.object_id)
       THEN Continue(c, [calls[c] EXCEPT !.pc = "find_duplicate"])
       ELSE Return(c, calls[c], "error", unitDocs, triples)
    /\ UNCHANGED <<units, unitDocs, triples, nextTripleId>>
    /\ TripleUnchanged

\* existing = await _find_duplicate(triple_data); found -> "duplicate"  (lines 35-38)
CreateFindDuplicate(c) ==
    /\ calls[c].op = "create" /\ calls[c].pc = "find_duplicate"
    /\ LET existing == FindDuplicate(triples, calls[c].data)
       IN  IF existing # None
           THEN Return(c, [calls[c] EXCEPT !.result = Some(existing[1].id)], "duplicate", unitDocs, triples)
           ELSE Continue(c, [calls[c] EXCEPT !.pc = "insert"])
    /\ UNCHANGED <<units, unitDocs, triples, nextTripleId>>
    /\ TripleUnchanged

\* result = await repository.create(triple)  (lines 56-57)
CreateInsert(c) ==
    /\ calls[c].op = "create" /\ calls[c].pc = "insert"
    /\ triples' = InsertMany(triples, nextTripleId, <<calls[c].data>>)
    /\ nextTripleId' = nextTripleId + 1
    /\ Continue(c, [calls[c] EXCEPT !.result = Some(nextTripleId),
                                    !.created = <<TripleDoc(nextTripleId, calls[c].data)>>,
                                    !.pc = "inc_subject"])
    /\ UNCHANGED <<units, unitDocs>>
    /\ TripleUnchanged

\* await unit_repository.update(subject_id, {"$inc": {"metrics.outgoing_relations": 1}})  (lines 60-63)
CreateIncSubject(c) ==
    /\ calls[c].op = "create" /\ calls[c].pc = "inc_subject"
    /\ LET r == UnitRepoUpdate(unitDocs, units, storeRejectsDollar,
                               Str(calls[c].created[1].subject_id),
                               IncData("outgoing_relations", 1))
       IN  /\ unitDocs' = r.docs
           /\ IF r.raised THEN Return(c, calls[c], "raised", r.docs, triples)
              ELSE Continue(c, [calls[c] EXCEPT !.pc = "inc_object"])
    /\ UNCHANGED <<units, triples, nextTripleId>>
    /\ TripleUnchanged

\* await unit_repository.update(object_id, {"$inc": {"metrics.incoming_relations": 1}})  (lines 65-70)
CreateIncObject(c) ==
    /\ calls[c].op = "create" /\ calls[c].pc = "inc_object"
    /\ LET r == UnitRepoUpdate(unitDocs, units, storeRejectsDollar,
                               Str(calls[c].created[1].object_id),
                               IncData("incoming_relations", 1))
       IN  /\ unitDocs' = r.docs
           /\ Return(c, calls[c], IF r.raised THEN "raised" ELSE "success", r.docs, triples)
    /\ UNCHANGED <<units, triples, nextTripleId>>
    /\ TripleUnchanged

\* delete, up to its first await  (line 98)
DeleteInvoke(triple_id) ==
    /\ Invoke(NewCall("delete", None, Some(triple_id), <<>>, "get", "running"))
    /\ UNCHANGED <<units, unitDocs, triples, nextTripleId>>
    /\ TripleUnchanged

\* existing = await repository.get_by_id(triple_id); absent -> error  (lines 98-100)
DeleteGet(c) ==
    /\ calls[c].op = "delete" /\ calls[c].pc = "get"
    /\ LET existing == TripleById(triples, calls[c].triple_id[1])
       IN  IF existing = None
           THEN Return(c, calls[c], "error", unitDocs, triples)
           ELSE Continue(c, [calls[c] EXCEPT !.existing = existing, !.pc = "dec_subject"])
    /\ UNCHANGED <<units, unitDocs, triples, nextTripleId>>
    /\ TripleUnchanged

\* await unit_repository.update(subject_id, {"$inc": {"metrics.outgoing_relations": -1}})  (lines 103-106)
DeleteDecSubject(c) ==
    /\ calls[c].op = "delete" /\ calls[c].pc = "dec_subject"
    /\ LET r == UnitRepoUpdate(unitDocs, units, storeRejectsDollar,
                               Str(calls[c].existing[1].subject_id),
                               IncData("outgoing_relations", -1))
       IN  /\ unitDocs' = r.docs
           /\ IF r.raised THEN Return(c, calls[c], "raised", r.docs, triples)
              ELSE Continue(c, [calls[c] EXCEPT !.pc = "dec_object"])
    /\ UNCHANGED <<units, triples, nextTripleId>>
    /\ TripleUnchanged

\* await unit_repository.update(object_id, {"$inc": {"metrics.incoming_relations": -1}})  (lines 108-111)
DeleteDecObject(c) ==
    /\ calls[c].op = "delete" /\ calls[c].pc = "dec_object"
    /\ LET r == UnitRepoUpdate(unitDocs, units, storeRejectsDollar,
                               Str(calls[c].existing[1].object_id),
                               IncData("incoming_relations", -1))
       IN  /\ unitDocs' = r.docs
           /\ IF r.raised THEN Return(c, calls[c], "raised", r.docs, triples)
              ELSE Continue(c, [calls[c] EXCEPT !.pc = "delete_one"])
    /\ UNCHANGED <<units, triples, nextTripleId>>
    /\ TripleUnchanged

\* result = await repository.delete(triple_id)  (lines 114-119)
DeleteDeleteOne(c) ==
    /\ calls[c].op = "delete" /\ calls[c].pc = "delete_one"
    /\ triples' = DeleteOne(triples, calls[c].triple_id[1])
    /\ Return(c, [calls[c] EXCEPT !.deleted = Len(triples) - Len(triples')], "success",
              unitDocs, triples')
    /\ UNCHANGED <<units, unitDocs, nextTripleId>>
    /\ TripleUnchanged

\* bulk_create, up to its first await: the validation loop  (lines 149-177)
BulkInvoke(batch) ==
    /\ LET valid == SelectSeq(batch, ValidateTripleData)
       IN  Invoke(IF valid = <<>>
                  THEN NewCall("bulk_create", None, None, valid, "done", "error")
                  ELSE NewCall("bulk_create", None, None, valid, "bulk_insert", "running"))
    /\ UNCHANGED <<units, unitDocs, triples, nextTripleId>>
    /\ TripleUnchanged

\* result = await repository.bulk_insert(triple_objects)  (line 180)
BulkInsert(c) ==
    /\ calls[c].op = "bulk_create" /\ calls[c].pc = "bulk_insert"
    /\ triples' = InsertMany(triples, nextTripleId, calls[c].batch)
    /\ nextTripleId' = nextTripleId + Len(calls[c].batch)
    /\ Continue(c, [calls[c] EXCEPT !.created = SubSeq(triples', Len(triples) + 1, Len(triples')),
                                    !.idx = 1,
                                    !.pc = "inc_subjects"])
    /\ UNCHANGED <<units, unitDocs>>
    /\ TripleUnchanged

SubjectKeys(created) == KeysInOrder([i \in 1..Len(created) |-> created[i].subject_id])
ObjectKeys(created) == KeysInOrder([i \in 1..Len(created) |-> created[i].object_id])
SubjectCount(created, u) == Occurrences([i \in 1..Len(created) |-> created[i].subject_id], u)
ObjectCount(created, u) == Occurrences([i \in 1..Len(created) |-> created[i].object_id], u)

\* for subject_id, count in subject_counts.items(): await update(..., {"$inc": {outgoing: count}})  (lines 193-197)
BulkIncSubject(c) ==
    /\ calls[c].op = "bulk_create" /\ calls[c].pc = "inc_subjects"
    /\ LET keys == SubjectKeys(calls[c].created)
           u == keys[calls[c].idx]
           r == UnitRepoUpdate(unitDocs, units, storeRejectsDollar, Str(u),
                               IncData("outgoing_relations", SubjectCount(calls[c].created, u)))
       IN  /\ unitDocs' = r.docs
           /\ IF r.raised THEN Return(c, calls[c], "raised", r.docs, triples)
              ELSE IF calls[c].idx < Len(keys)
                   THEN Continue(c, [calls[c] EXCEPT !.idx = @ + 1])
                   ELSE Continue(c, [calls[c] EXCEPT !.idx = 1, !.pc = "inc_objects"])
    /\ UNCHANGED <<units, triples, nextTripleId>>
    /\ TripleUnchanged

\* for object_id, count in object_counts.items(): await update(..., {"$inc": {incoming: count}})  (lines 199-210)
BulkIncObject(c) ==
    /\ calls[c].op = "bulk_create" /\ calls[c].pc = "inc_objects"
    /\ LET keys == ObjectKeys(calls[c].created)
           u == keys[calls[c].idx]
           r == UnitRepoUpdate(unitDocs, units, storeRejectsDollar, Str(u),
                               IncData("incoming_relations", ObjectCount(calls[c].created, u)))
       IN  /\ unitDocs' = r.docs
           /\ IF r.raised THEN Return(c, calls[c], "raised", r.docs, triples)
              ELSE IF calls[c].idx < Len(keys)
                   THEN Continue(c, [calls[c] EXCEPT !.idx = @ + 1])
                   ELSE Return(c, calls[c], "success", r.docs, triples)
    /\ UNCHANGED <<units, triples, nextTripleId>>
    /\ TripleUnchanged

\* KnowledgeUnitService.delete: get_by_id, then delete_one; triples naming the unit stay
UnitDelete(u) ==
    /\ u \in units
    /\ units' = units \ {u}
    /\ unitDocs' = [unitDocs EXCEPT ![u] = NewUnitDoc]
    /\ calls' = NotSolo(calls)
    /\ UNCHANGED <<triples, nextTripleId, callCount, lastCall>>
    /\ TripleUnchanged

----------------------------------------------------------------------------

NoQuery == [start_id |-> None, end_id |-> None, max_depth |-> 0, path |-> None,
            response |-> [status |-> "none", path |-> <<>>]]
NoVisual == [depth |-> 0, root_ids |-> None, roots |-> <<>>, status |-> "none",
             nodes |-> <<>>, edges |-> <<>>]
NoSplit == [text |-> <<>>, max_chunk_size |-> 0, chunks |-> None]
NoDedup == [units |-> <<>>, result |-> None]
NoImport == [raw_units |-> <<>>, status |-> "none", persisted |-> <<>>]
NoPairs == [units |-> <<>>, unit_ids |-> None, status |-> "none", submitted |-> <<>>]
NoBatch == [unit_pairs |-> <<>>, answers |-> <<>>, i |-> 0, pending |-> {}, results |-> <<>>,
            overtaken |-> FALSE, all_relations |-> <<>>, status |-> "none", processed |-> <<>>]
NoTask == [imports |-> <<>>, pc |-> "none", raw_units |-> <<>>, enhanced_units |-> <<>>,
           unit_ids |-> <<>>, persisted |-> <<>>, raised |-> "", result |-> [op |-> "none", status |-> "none"]]

\* nothing has been segmented, deduplicated, imported, paired or extracted
InitExtraction ==
    /\ split = NoSplit
    /\ dedup = NoDedup
    /\ imported = NoImport
    /\ pairs = NoPairs
    /\ extraction = NoBatch
    /\ task = NoTask

NoGraphCall == [op |-> "none", ids |-> <<>>, status |-> "none", added |-> 0, before |-> None, n |-> 0,
                prev |-> [op |-> "none", ids |-> <<>>, status |-> "none"]]

InitStores ==
    /\ units = UnitOids
    /\ unitDocs = [u \in UnitOids |-> NewUnitDoc]
    /\ calls = <<>>
    /\ callCount = 0
    /\ lastCall = None

Init ==
    /\ InitStores
    /\ storeRejectsDollar \in BOOLEAN
    /\ triples = <<>>
    /\ nextTripleId = 1
    /\ pathQuery = NoQuery
    /\ visual = NoVisual
    /\ InitExtraction
    /\ graph = None
    /\ graphCall = NoGraphCall

Next ==
    \/ \E data \in CreateInputs : CreateInvoke(data)
    \/ \E i \in 0..(nextTripleId - 1) : DeleteInvoke(Str(i))
    \/ \E batch \in BulkInputs : BulkInvoke(batch)
    \/ \E c \in 1..Len(calls) :
          \/ CreateGetSubject(c)
          \/ CreateGetObject(c)
          \/ CreateFindDuplicate(c)
          \/ CreateInsert(c)
          \/ CreateIncSubject(c)
          \/ CreateIncObject(c)
          \/ DeleteGet(c)
          \/ DeleteDecSubject(c)
          \/ DeleteDecObject(c)
          \/ DeleteDeleteOne(c)
          \/ BulkInsert(c)
          \/ BulkIncSubject(c)
          \/ BulkIncObject(c)
    \/ \E u \in {U1, U2} : UnitDelete(u)

Spec == Init /\ [][Next]_vars

----------------------------------------------------------------------------
(* Claims about SemanticTripleService *)

OutgoingCount(ts, u) == Cardinality({i \in 1..Len(ts) : ts[i].subject_id = u})
IncomingCount(ts, u) == Cardinality({i \in 1..Len(ts) : ts[i].object_id = u})

TripleKey(t) == <<t.subject_id, t.predicate, t.object_id>>

\* a triple with the (subject, predicate, object) of data is among ts
StoredWithKey(ts, data) ==
    \E i \in 1..Len(ts) : TripleKey(ts[i]) = TripleKey(TripleDoc(0, data))

\* the call that returned last ran alone and was create(data) for a valid, new
\* triple between two existing units
SoloFreshCreate(c) ==
    /\ c.op = "create" /\ c.solo
    /\ ValidateTripleData(c.data)
    /\ {ObjectId(c.data.subject_id), ObjectId(c.data.object_id)} \subseteq c.pre_units
    /\ ~StoredWithKey(c.pre_triples, c.data)

\* the call that returned last ran alone and was delete(id) of a stored triple
\* whose two units exist
SoloDeleteOfStored(c) ==
    /\ c.op = "delete" /\ c.solo
    /\ TripleById(c.pre_triples, c.triple_id[1]) # None
    /\ LET t == TripleById(c.pre_triples, c.triple_id[1])[1]
       IN  {t.subject_id, t.object_id} \subseteq c.pre_units

\* C1: create of a valid, non-duplicate triple (S,P,O) between existing units raises
\* S.outgoing_relations and O.incoming_relations by exactly 1, and delete of a stored
\* triple lowers both by exactly 1 (back to the values before its create).
C1_CreateDeleteCounters ==
    lastCall # None =>
        LET c == lastCall[1] IN
        /\ SoloFreshCreate(c) =>
              LET s == ObjectId(c.data.subject_id)
                  o == ObjectId(c.data.object_id)
              IN  /\ c.post_docs[1][s].outgoing_relations = c.pre_docs[1][s].outgoing_relations + 1
                  /\ c.post_docs[1][o].incoming_relations = c.pre_docs[1][o].incoming_relations + 1
        /\ SoloDeleteOfStored(c) =>
              LET t == TripleById(c.pre_triples, c.triple_id[1])[1]
              IN  /\ c.post_docs[1][t.subject_id].outgoing_relations
                        = c.pre_docs[1][t.subject_id].outgoing_relations - 1
                  /\ c.post_docs[1][t.object_id].incoming_relations
                        = c.pre_docs[1][t.object_id].incoming_relations - 1

\* C2: once every create / delete call has finished, each unit's outgoing_relations is
\* the number of stored triples with it as subject, its incoming_relations the number
\* with it as object.
C2_CountersMatchTriples ==
    (calls = <<>> /\ callCount > 0) =>
        \A u \in units :
            /\ unitDocs[u].outgoing_relations = OutgoingCount(triples, u)
            /\ unitDocs[u].incoming_relations = IncomingCount(triples, u)

\* the call that returned last ran alone and was create(data) with the
\* (subject, predicate, object) of a triple stored when it was made
SoloDuplicateCreate(c) ==
    /\ c.op = "create" /\ c.solo
    /\ "predicate" \in DOMAIN c.data
    /\ StoredWithKey(c.pre_triples, c.data)

ReturnsDuplicate(c) ==
    /\ c.status = "duplicate"
    /\ c.result # None
    /\ \E i \in 1..Len(c.pre_triples) :
          /\ c.pre_triples[i].id = c.result[1]
          /\ TripleKey(c.pre_triples[i]) = TripleKey(TripleDoc(0, c.data))
    /\ c.post_triples = c.pre_triples
    /\ c.post_docs = c.pre_docs

\* C3 as stated: create with the (subject_id, predicate, object_id) of a stored triple
\* returns "duplicate" with the existing triple's id, inserts nothing and leaves the
\* relation counters alone.
C3_DuplicateCreate ==
    lastCall # None =>
        (SoloDuplicateCreate(lastCall[1]) => ReturnsDuplicate(lastCall[1]))

\* C3 amended: the same, for a create whose data passes validation and whose subject
\* and object units both still exist (a create of data that fails validation, or
\* naming a deleted unit, returns "error" before the duplicate lookup).
C3_DuplicateCreateUnitsExist ==
    lastCall # None =>
        LET c == lastCall[1] IN
        (/\ SoloDuplicateCreate(c)
         /\ ValidateTripleData(c.data)
         /\ {ObjectId(c.data.subject_id), ObjectId(c.data.object_id)} \subseteq c.pre_units)
            => ReturnsDuplicate(c)

C3_Witness ==
    /\ lastCall # None
    /\ SoloDuplicateCreate(lastCall[1])
    /\ lastCall[1].status = "duplicate"
    /\ Len(lastCall[1].post_triples) > 0

\* C4: no two stored triples share the same (subject_id, predicate, object_id).
C4_TripleKeysUnique ==
    \A i, j \in 1..Len(triples) :
        i # j => TripleKey(triples[i]) # TripleKey(triples[j])

----------------------------------------------------------------------------
(* SemanticTripleRepository.find_path *)

MaxPathTriples == 3     \* triples in the stores find_path is run on
MaxDepth == 3           \* largest max_depth asked for

FindLimit == 100        \* find(..., limit=100) in find_path

Min(a, b) == IF a < b THEN a ELSE b

Reverse(s) == [i \in 1..Len(s) |-> s[Len(s) + 1 - i]]

\* SemanticTripleRepository.find({field: oid}, limit): newest first (created_at
\* descending), at most limit documents
Find(ts, field, oid, limit) ==
    LET hits == Reverse(SelectSeq(ts, LAMBDA t : t[field] = oid))
    IN  SubSeq(hits, 1, Min(Len(hits), limit))

PathStep(triple, direction) == [triple_id |-> Str(triple.id), direction |-> direction]

\* for triple in found: next_id = str(triple.<far_end>); if next_id not in visited:
\* queue.append(...)
Enqueue(queue, found, far_end, visited, path, direction) ==
    LET keep == SelectSeq(found, LAMBDA t : Str(t[far_end]) \notin visited)
    IN  queue \o [i \in 1..Len(keep) |->
                    [id |-> Str(keep[i][far_end]),
                     path |-> Append(path, PathStep(keep[i], direction))]]

\* the loop condition without its depth budget: "while queue"
LoopContinuesUnbounded(queue, max_depth) == queue # <<>>

\* while queue and max_depth > 0  (line 116)
LoopContinues(queue, max_depth) == queue # <<>> /\ max_depth > 0

RECURSIVE FindPathWhile(_, _, _, _, _)
RECURSIVE FindPathFor(_, _, _, _, _, _)

\* "for _ in range(level_size)" with k iterations left  (lines 119-147).  The
\* iterations that pop an id already in visited only "continue"; a run of them is
\* taken in one step, up to the first entry that is expanded.
FindPathFor(ts, end_id, visited, queue, max_depth, k) ==
    LET fresh == {i \in 1..k : queue[i].id \notin visited}
    IN  IF fresh = {}
        THEN FindPathWhile(ts, end_id, visited, SubSeq(queue, k + 1, Len(queue)), max_depth - 1)
        ELSE LET first == CHOOSE i \in fresh : \A j \in fresh : i <= j
                 current == queue[first]
                 rest == SubSeq(queue, first + 1, Len(queue))
                 current_oid == ObjectId(current.id)
             IN  IF current.id = end_id
                 THEN Some(current.path)
                 ELSE LET seen == visited \cup {current.id}
                          outgoing == Find(ts, "subject_id", current_oid, FindLimit)
                          q1 == Enqueue(rest, outgoing, "object_id", seen,
                                        current.path, "outgoing")
                          incoming == Find(ts, "object_id", current_oid, FindLimit)
                          q2 == Enqueue(q1, incoming, "subject_id", seen,
                                        current.path, "incoming")
                      IN  FindPathFor(ts, end_id, seen, q2, max_depth, k - first)

\* the while loop of find_path  (lines 116-149)
FindPathWhile(ts, end_id, visited, queue, max_depth) ==
    IF LoopContinues(queue, max_depth)
    THEN FindPathFor(ts, end_id, visited, queue, max_depth, Len(queue))
    ELSE None

\* SemanticTripleRepository.find_path(start_id, end_id, max_depth): None, or Some(path)
FindPath(ts, start_id, end_id, max_depth) ==
    FindPathWhile(ts, end_id, {}, <<[id |-> start_id, path |-> <<>>]>>, max_depth)

\* the /triples/path route: "if not path" answers not_found for None and for []
PathResponse(path) ==
    IF path = None \/ path = Some(<<>>)
    THEN [status |-> "not_found", path |-> <<>>]
    ELSE [status |-> "success", path |-> path[1]]

U3 == "u3"
U4 == "u4"

PathEdge(id, s, o) == [id |-> id, subject_id |-> s, predicate |-> "p", object_id |-> o]

PathUnits == {U1, U2, U4}

Edges == {e \in PathUnits \X PathUnits : e[1] # e[2]}

\* the stores of at most MaxPathTriples triples between PathUnits, in any insertion
\* order, the same pair of units linked more than once included
SmallStores ==
    UNION { { [i \in 1..n |-> PathEdge(i, es[i][1], es[i][2])] : es \in [1..n -> Edges] }
            : n \in 0..MaxPathTriples }

\* a hub: U1 -> U4 stored first, then FindLimit triples U1 -> U2, then U2 -> U4
FanOutStore ==
    <<PathEdge(1, U1, U4)>>
    \o [i \in 1..FindLimit |-> PathEdge(i + 1, U1, U2)]
    \o <<PathEdge(FindLimit + 2, U2, U4)>>

\* the chain U1 -> U2 -> U3 -> U4
ChainStore == <<PathEdge(1, U1, U2), PathEdge(2, U2, U3), PathEdge(3, U3, U4)>>

PathStarts == {Str(U1), Upper(U1)}
PathEnds == {Str(U1), Upper(U1), Str(U4)}

InitPath ==
    /\ InitStores
    /\ storeRejectsDollar = FALSE
    /\ triples \in SmallStores \cup {ChainStore, FanOutStore}
    /\ nextTripleId = Len(triples) + 1
    /\ pathQuery = NoQuery
    /\ visual = NoVisual
    /\ InitExtraction
    /\ graph = None
    /\ graphCall = NoGraphCall

\* one find_path call, through the route
FindPathCall(start_id, end_id, max_depth) ==
    /\ pathQuery = NoQuery
    /\ LET path == FindPath(triples, start_id, end_id, max_depth)
       IN  pathQuery' = [start_id |-> Some(start_id), end_id |-> Some(end_id),
                         max_depth |-> max_depth, path |-> path,
                         response |-> PathResponse(path)]
    /\ UNCHANGED <<storeRejectsDollar, units, unitDocs, triples, nextTripleId, calls,
                   callCount, lastCall, graph, graphCall, visual, split, dedup, imported, pairs, extraction, task>>

NextPath ==
    \E start_id \in PathStarts, end_id \in PathEnds, max_depth \in 0..MaxDepth :
        FindPathCall(start_id, end_id, max_depth)

SpecPath == InitPath /\ [][NextPath]_vars

----------------------------------------------------------------------------
(* Claims about find_path *)

Neighbours(ts, u) ==
    {ts[i].object_id : i \in {j \in 1..Len(ts) : ts[j].subject_id = u}}
    \cup {ts[i].subject_id : i \in {j \in 1..Len(ts) : ts[j].object_id = u}}

\* units within k hops of a, triples followed in either direction
RECURSIVE Within(_, _, _)
Within(ts, a, k) ==
    IF k = 0 THEN {a}
    ELSE LET near == Within(ts, a, k - 1)
         IN  near \cup UNION {Neighbours(ts, u) : u \in near}

Connected(ts, a, b) == b \in Within(ts, a, Cardinality(UnitOids))

\* number of triples on a shortest path between a and b (for connected a, b)
Distance(ts, a, b) ==
    CHOOSE k \in 0..Cardinality(UnitOids) :
        /\ b \in Within(ts, a, k)
        /\ \A j \in 0..(k - 1) : b \notin Within(ts, a, j)

Asked == pathQuery.start_id # None
StartOid == ObjectId(pathQuery.start_id[1])
EndOid == ObjectId(pathQuery.end_id[1])

ChainQuery(d) ==
    /\ Asked /\ triples = ChainStore
    /\ pathQuery.start_id[1] = Str(U1) /\ pathQuery.end_id[1] = Str(U4)
    /\ pathQuery.max_depth = d

\* C5: a path returned by find_path(A, B, d) has at most d steps; on the chain
\* U1->U2->U3->U4, find_path(U1, U4, 2) returns not found.
C5_PathWithinDepth ==
    /\ (Asked /\ pathQuery.path # None) => Len(pathQuery.path[1]) <= pathQuery.max_depth
    /\ ChainQuery(2) => pathQuery.path = None

C5_Witness ==
    /\ Asked /\ pathQuery.path # None
    /\ Len(pathQuery.path[1]) = 2
    /\ pathQuery.max_depth = 3

\* C6: if a path of at most d triples joins A and B (either direction), find_path(A, B, d)
\* returns a path; on the chain, find_path(U1, U4, 3) returns the 3-step outgoing path.
C6_PathFoundWithinDepth ==
    /\ (/\ Asked
        /\ Connected(triples, StartOid, EndOid)
        /\ Distance(triples, StartOid, EndOid) <= pathQuery.max_depth)
            => pathQuery.path # None
    /\ ChainQuery(3) =>
            pathQuery.path = Some(<<PathStep(ChainStore[1], "outgoing"),
                                    PathStep(ChainStore[2], "outgoing"),
                                    PathStep(ChainStore[3], "outgoing")>>)

\* C7: find_path(X, X, d) returns the empty path, not the not-found result, for every d.
C7_SelfPathEmpty ==
    (Asked /\ pathQuery.start_id = pathQuery.end_id) =>
        /\ pathQuery.path = Some(<<>>)
        /\ pathQuery.response.status # "not_found"

\* C8: a path returned by find_path(A, B, d) has the minimum number of steps among the
\* paths between A and B.
C8_PathIsShortest ==
    (Asked /\ pathQuery.path # None) =>
        Len(pathQuery.path[1]) = Distance(triples, StartOid, EndOid)

----------------------------------------------------------------------------
(* KnowledgeGraphService / KnowledgeGraphRepository *)

MaxGraphCalls == 3      \* KnowledgeGraphService calls per behaviour
MaxIdList == 2          \* longest id list handed to add_units / add_triples

\* KnowledgeGraphService.create: id lists converted element by element, the counts
\* taken as the lengths of the lists  (lines 40-57)
NewGraph(included_units, included_triples) ==
    [included_units |-> [i \in 1..Len(included_units) |-> ObjectId(included_units[i])],
     included_triples |-> [i \in 1..Len(included_triples) |-> ObjectId(included_triples[i])],
     root_units |-> <<>>,
     entity_count |-> Len(included_units),
     relation_count |-> Len(included_triples)]

\* $addToSet with $each: every value not yet in the array is appended, once
RECURSIVE AddToSet(_, _)
AddToSet(array, values) ==
    IF values = <<>> THEN array
    ELSE AddToSet(IF Head(values) \in SeqToSet(array) THEN array
                  ELSE Append(array, Head(values)),
                  Tail(values))

\* new_units = [id for id in unit_ids if id not in existing_units]: the id strings
\* not among str(id) of the included ids  (lines 81-84, 115-118)
NewIds(included, ids) ==
    SelectSeq(ids, LAMBDA id : id \notin {Str(o) : o \in SeqToSet(included)})

ObjectIds(ids) == [i \in 1..Len(ids) |-> ObjectId(ids[i])]

\* KnowledgeGraphRepository.add_units on graph document g  (lines 70-102)
RepoAddUnits(g, unit_ids) ==
    LET new_units == NewIds(g.included_units, unit_ids)
    IN  IF new_units = <<>>
        THEN [graph |-> g, added |-> 0]
        ELSE [graph |-> [g EXCEPT !.included_units = AddToSet(@, ObjectIds(unit_ids)),
                                  !.entity_count = @ + Len(new_units)],
              added |-> Len(new_units)]

\* the units named by the stored triples among obj_ids  (lines 134-139)
EndpointUnits(ts, obj_ids) ==
    UNION { {ts[i].subject_id, ts[i].object_id} :
                i \in {j \in 1..Len(ts) : ts[j].id \in SeqToSet(obj_ids)} }

\* add_triples without the automatic add_units of the triples' endpoint units
RepoAddTriplesNoEndpoints(g, ts, triple_ids, endpoints) ==
    LET new_triples == NewIds(g.included_triples, triple_ids)
    IN  IF new_triples = <<>>
        THEN [graph |-> g, added |-> 0]
        ELSE [graph |-> [g EXCEPT !.included_triples = AddToSet(@, ObjectIds(triple_ids)),
                                  !.relation_count = @ + Len(new_triples)],
              added |-> Len(new_triples)]

\* KnowledgeGraphRepository.add_triples on graph document g; endpoints is the order
\* in which the set of endpoint units is handed to add_units  (lines 104-148)
RepoAddTriples(g, ts, triple_ids, endpoints) ==
    LET new_triples == NewIds(g.included_triples, triple_ids)
        g1 == [g EXCEPT !.included_triples = AddToSet(@, ObjectIds(triple_ids)),
                        !.relation_count = @ + Len(new_triples)]
    IN  IF new_triples = <<>>
        THEN [graph |-> g, added |-> 0]
        ELSE [graph |-> IF endpoints = <<>> THEN g1
                        ELSE RepoAddUnits(g1, [i \in 1..Len(endpoints) |-> Str(endpoints[i])]).graph,
              added |-> Len(new_triples)]

\* the orders a set can be iterated in
Orders(S) ==
    {s \in [1..Cardinality(S) -> S] : \A i, j \in 1..Cardinality(S) : i # j => s[i] # s[j]}

GraphStore == <<PathEdge(1, U1, U2), PathEdge(2, U2, U3)>>

UnitIdStrings == {Str(U1), Upper(U1)}
TripleIdStrings == {Str(1), Upper(1), Str(7)}

IdLists(S) == UNION {[1..n -> S] : n \in 1..MaxIdList}

GraphUnchanged ==
    UNCHANGED <<storeRejectsDollar, units, unitDocs, triples, nextTripleId, calls,
                callCount, lastCall, pathQuery, visual, split, dedup, imported, pairs, extraction, task>>

GraphCalled(op, ids, status, added) ==
    graphCall' = [op |-> op, ids |-> ids, status |-> status, added |-> added,
                  before |-> graph, n |-> graphCall.n + 1,
                  prev |-> [op |-> graphCall.op, ids |-> graphCall.ids,
                            status |-> graphCall.status]]

MoreGraphCalls == graphCall.n < MaxGraphCalls

\* KnowledgeGraphService.create
GraphCreate(included_units, included_triples) ==
    /\ MoreGraphCalls
    /\ graph = None
    /\ graph' = Some(NewGraph(included_units, included_triples))
    /\ GraphCalled("create", included_units \o included_triples, "success", 0)
    /\ GraphUnchanged

\* KnowledgeGraphService.add_units
GraphAddUnits(unit_ids) ==
    /\ MoreGraphCalls
    /\ IF graph = None
       THEN /\ UNCHANGED graph
            /\ GraphCalled("add_units", unit_ids, "error", 0)
       ELSE LET r == RepoAddUnits(graph[1], unit_ids)
            IN  /\ graph' = Some(r.graph)
                /\ GraphCalled("add_units", unit_ids, "success", r.added)
    /\ GraphUnchanged

\* KnowledgeGraphService.add_triples
GraphAddTriples(triple_ids) ==
    /\ MoreGraphCalls
    /\ IF graph = None
       THEN /\ UNCHANGED graph
            /\ GraphCalled("add_triples", triple_ids, "error", 0)
       ELSE \E endpoints \in Orders(EndpointUnits(triples, ObjectIds(triple_ids))) :
              LET r == RepoAddTriples(graph[1], triples, triple_ids, endpoints)
              IN  /\ graph' = Some(r.graph)
                  /\ GraphCalled("add_triples", triple_ids, "success", r.added)
    /\ GraphUnchanged

InitGraph ==
    /\ InitStores
    /\ storeRejectsDollar = FALSE
    /\ triples = GraphStore
    /\ nextTripleId = Len(triples) + 1
    /\ pathQuery = NoQuery
    /\ visual = NoVisual
    /\ InitExtraction
    /\ graph = None
    /\ graphCall = NoGraphCall

NextGraph ==
    \/ \E us \in {<<>>, <<Str(U1)>>, <<Str(U1), Str(U1)>>}, ts \in {<<>>, <<Str(1)>>} :
          GraphCreate(us, ts)
    \/ \E unit_ids \in IdLists(UnitIdStrings) : GraphAddUnits(unit_ids)
    \/ \E triple_ids \in IdLists(TripleIdStrings) : GraphAddTriples(triple_ids)

SpecGraph == InitGraph /\ [][NextGraph]_vars

----------------------------------------------------------------------------
(* Claims about the knowledge graph document *)

Distinct(array) == Cardinality(SeqToSet(array))

\* C9: entity_count is the number of distinct ids in included_units and relation_count
\* the number of distinct ids in included_triples, after any create / add_units /
\* add_triples calls.
C9_CountsMatchIncluded ==
    graph # None =>
        /\ graph[1].entity_count = Distinct(graph[1].included_units)
        /\ graph[1].relation_count = Distinct(graph[1].included_triples)

\* the last call was add_triples(graph, [T1]) for a stored triple T1 not yet included,
\* whose subject and object were not yet included units
AddedOneNewTriple ==
    /\ graphCall.op = "add_triples"
    /\ graphCall.before # None
    /\ Len(graphCall.ids) = 1
    /\ TripleById(triples, graphCall.ids[1]) # None
    /\ LET t == TripleById(triples, graphCall.ids[1])[1]
           b == graphCall.before[1]
       IN  /\ t.id \notin SeqToSet(b.included_triples)
           /\ t.subject_id \notin SeqToSet(b.included_units)
           /\ t.object_id \notin SeqToSet(b.included_units)

\* C10: such an add_triples adds T1 to included_triples, adds its subject and object
\* to included_units, raises entity_count by 2 and relation_count by 1.
C10_AddTripleIncludesEndpoints ==
    AddedOneNewTriple =>
        LET t == TripleById(triples, graphCall.ids[1])[1]
            b == graphCall.before[1]
            g == graph[1]
        IN  /\ SeqToSet(g.included_triples) = SeqToSet(b.included_triples) \cup {t.id}
            /\ SeqToSet(g.included_units)
                  = SeqToSet(b.included_units) \cup {t.subject_id, t.object_id}
            /\ g.entity_count = b.entity_count + 2
            /\ g.relation_count = b.relation_count + 1

C10_Witness ==
    /\ AddedOneNewTriple
    /\ graphCall.status = "success"
    /\ graphCall.added = 1
    /\ Len(graph[1].included_units) >= 2

\* the last call was add_units or add_triples and repeated the call before it: the
\* same operation with the same id list, both on the existing graph
RepeatedAdd ==
    /\ graphCall.op \in {"add_units", "add_triples"}
    /\ graphCall.status = "success"
    /\ graphCall.prev.op = graphCall.op
    /\ graphCall.prev.ids = graphCall.ids
    /\ graphCall.prev.status = "success"

\* C11: add_units and add_triples are idempotent: a second call with the same id list
\* leaves included_units, included_triples, entity_count and relation_count as the
\* first call left them, and reports added = 0.
C11_AddIdempotent ==
    RepeatedAdd => (graph = graphCall.before /\ graphCall.added = 0)

----------------------------------------------------------------------------
(* KnowledgeGraphRepository.get_graph_visual_data *)

MaxVisualDepth == 2     \* largest depth asked of get_visual_data

RootLimit == 5          \* {"$limit": 5} and included_units[:5]

Score(docs, u) == docs[u].outgoing_relations + docs[u].incoming_relations

\* the aggregate of lines 164-177: the stored units among included_units, highest
\* score first (units of equal score in any order), at most RootLimit of them
TopUnits(g, us, docs) ==
    LET cands == SeqToSet(g.included_units) \cap us
    IN  { SubSeq(s, 1, Min(Len(s), RootLimit)) :
            s \in {o \in Orders(cands) :
                      \A i, j \in 1..Len(o) : i < j => Score(docs, o[i]) >= Score(docs, o[j])} }

\* root selection (lines 157-181): explicit root_ids, else the stored root_units,
\* else top, the units the aggregate returned, else the first included units
SelectRoots(g, root_ids, top) ==
    IF root_ids # None /\ root_ids[1] # <<>> THEN ObjectIds(root_ids[1])
    ELSE IF g.root_units # <<>> THEN g.root_units
    ELSE IF top # <<>> THEN top
    ELSE SubSeq(g.included_units, 1, Min(Len(g.included_units), RootLimit))

\* one "for triple in found" loop (lines 232-254, 262-284): the triples not yet in
\* visited_triples become edges, their far ends are queued at depth + 1 unless visited
VisualExpand(st, found, far_end, current_depth) ==
    LET fresh == SelectSeq(found, LAMBDA t : t.id \notin st.visited_triples)
        ids == [i \in 1..Len(fresh) |-> fresh[i].id]
        far == SelectSeq(fresh, LAMBDA t : t[far_end] \notin st.visited_units)
    IN  [st EXCEPT !.visited_triples = @ \cup SeqToSet(ids),
                   !.edges = AddToSet(@, ids),
                   !.queue = @ \o [i \in 1..Len(far) |->
                                      [unit_id |-> far[i][far_end], depth |-> current_depth + 1]]]

\* the same find without the restriction to the graph's included_triples
IncludedTriplesAll(g, ts, field, unit_id) ==
    SelectSeq(ts, LAMBDA t : t[field] = unit_id)

\* the triples_collection.find of lines 227-230 / 257-260
IncludedTriples(g, ts, field, unit_id) ==
    SelectSeq(ts, LAMBDA t : t[field] = unit_id /\ t.id \in SeqToSet(g.included_triples))

\* a traversal that never stops expanding at the maximum depth
AtMaxDepthNever(current_depth, depth) == FALSE

\* if current_depth == depth: continue  (lines 223-224)
AtMaxDepth(current_depth, depth) == current_depth = depth

\* the while loop of the traversal (lines 195-284)
RECURSIVE VisualWhile(_, _, _, _, _)
VisualWhile(g, us, ts, depth, st) ==
    IF st.queue = <<>> THEN st
    ELSE LET unit_id == Head(st.queue).unit_id
             current_depth == Head(st.queue).depth
             popped == [st EXCEPT !.queue = Tail(@)]
         IN  IF current_depth > depth \/ unit_id \in st.visited_units
             THEN VisualWhile(g, us, ts, depth, popped)
             ELSE LET seen == [popped EXCEPT !.visited_units = @ \cup {unit_id}]
                  IN  IF unit_id \notin us
                      THEN VisualWhile(g, us, ts, depth, seen)
                      ELSE LET node == [seen EXCEPT !.nodes = AddToSet(@, <<unit_id>>)]
                           IN  IF AtMaxDepth(current_depth, depth)
                               THEN VisualWhile(g, us, ts, depth, node)
                               ELSE LET out == VisualExpand(node,
                                                   IncludedTriples(g, ts, "subject_id", unit_id),
                                                   "object_id", current_depth)
                                        inc == VisualExpand(out,
                                                   IncludedTriples(g, ts, "object_id", unit_id),
                                                   "subject_id", current_depth)
                                    IN  VisualWhile(g, us, ts, depth, inc)

\* get_graph_visual_data on graph document g (None: no such graph), the aggregate
\* having returned top  (lines 150-301)
GetGraphVisualData(g, us, ts, depth, root_ids, top) ==
    IF g = None
    THEN [status |-> "error", roots |-> <<>>, nodes |-> <<>>, edges |-> <<>>]
    ELSE LET roots == SelectRoots(g[1], root_ids, top)
         IN  IF roots = <<>>
             THEN [status |-> "error", roots |-> roots, nodes |-> <<>>, edges |-> <<>>]
             ELSE LET st == VisualWhile(g[1], us, ts, depth,
                                [queue |-> [i \in 1..Len(roots) |-> [unit_id |-> roots[i], depth |-> 0]],
                                 visited_units |-> {}, visited_triples |-> {},
                                 nodes |-> <<>>, edges |-> <<>>])
                  IN  [status |-> "success", roots |-> roots,
                       nodes |-> st.nodes, edges |-> st.edges]

\* a set as a list, in one fixed order
SetToSeq(S) == CHOOSE s \in Orders(S) : TRUE

CycleStore == <<PathEdge(1, U1, U2), PathEdge(2, U2, U1), PathEdge(3, U2, U3)>>

VisualStores == {ChainStore, CycleStore}

\* graph documents as create / add_units / add_triples leave them: any units and
\* triple ids included, root_units as the creator gave them
VisualGraphs ==
    { [NewGraph(<<>>, <<>>) EXCEPT !.included_units = SetToSeq(us),
                                   !.included_triples = SetToSeq(tids),
                                   !.root_units = rs,
                                   !.entity_count = Cardinality(us),
                                   !.relation_count = Cardinality(tids)] :
        us \in SUBSET UnitOids, tids \in SUBSET {1, 2, 3}, rs \in {<<>>, <<U1>>, <<U3>>} }

VisualRootIds == {None, Some(<<Str(U1)>>), Some(<<Str(U2)>>), Some(<<Upper(U1), Str(U4)>>)}

InitVisual ==
    /\ storeRejectsDollar = FALSE
    /\ units \in {UnitOids, UnitOids \ {U2}}
    /\ unitDocs = [u \in UnitOids |-> NewUnitDoc]
    /\ triples \in VisualStores
    /\ nextTripleId = Len(triples) + 1
    /\ calls = <<>>
    /\ callCount = 0
    /\ lastCall = None
    /\ pathQuery = NoQuery
    /\ graph \in {None} \cup {Some(g) : g \in VisualGraphs}
    /\ graphCall = NoGraphCall
    /\ visual = NoVisual
    /\ InitExtraction

\* KnowledgeGraphService.get_visual_data(graph_id, depth, root_ids)
GetVisualData(depth, root_ids) ==
    /\ visual = NoVisual
    /\ \E top \in (IF graph = None THEN {<<>>} ELSE TopUnits(graph[1], units, unitDocs)) :
          LET r == GetGraphVisualData(graph, units, triples, depth, root_ids, top)
          IN  visual' = [depth |-> depth, root_ids |-> root_ids, roots |-> r.roots,
                         status |-> r.status, nodes |-> r.nodes, edges |-> r.edges]
    /\ UNCHANGED <<storeRejectsDollar, units, unitDocs, triples, nextTripleId, calls,
                   callCount, lastCall, pathQuery, graph, graphCall, split, dedup, imported, pairs, extraction, task>>

NextVisual ==
    \E depth \in 0..MaxVisualDepth, root_ids \in VisualRootIds : GetVisualData(depth, root_ids)

SpecVisual == InitVisual /\ [][NextVisual]_vars

----------------------------------------------------------------------------
(* Claims about get_visual_data *)

VisualReturned == visual.status = "success"

\* C12: every node returned by get_visual_data is one of the graph's included_units
\* and every edge returned is one of its included_triples, however the roots are chosen.
C12_VisualWithinGraph ==
    VisualReturned =>
        /\ SeqToSet(visual.nodes) \subseteq SeqToSet(graph[1].included_units)
        /\ SeqToSet(visual.edges) \subseteq SeqToSet(graph[1].included_triples)

\* C13: get_visual_data(graph, depth=0) returns exactly the root units that exist in
\* the unit store as nodes, and no edge, whatever triples the graph includes.
C13_DepthZeroRootsOnly ==
    (VisualReturned /\ visual.depth = 0) =>
        /\ SeqToSet(visual.nodes) = SeqToSet(visual.roots) \cap units
        /\ visual.edges = <<>>

C13_Witness ==
    /\ VisualReturned /\ visual.depth = 0
    /\ visual.nodes # <<>>
    /\ \E i \in 1..Len(triples) :
          /\ triples[i].id \in SeqToSet(graph[1].included_triples)
          /\ triples[i].subject_id \in SeqToSet(visual.nodes)

\* the stored triples the graph includes
GraphTriples == SelectSeq(triples, LAMBDA t : t.id \in SeqToSet(graph[1].included_triples))

\* units within k hops of a root, a hop following an included triple either way
HopsFromRoots(k) ==
    UNION {Within(GraphTriples, r, k) : r \in SeqToSet(visual.roots)}

\* the same, a hop leaving only a unit that is in the unit store
RECURSIVE StoredHops(_, _)
StoredHops(S, k) ==
    IF k = 0 THEN S
    ELSE LET near == StoredHops(S, k - 1)
         IN  near \cup UNION {Neighbours(GraphTriples, u) : u \in near \cap units}

\* C14 as stated: the nodes returned are exactly the stored units within depth hops
\* of some root, a hop following a triple of included_triples in either direction.
C14_VisualNodesReachable ==
    VisualReturned => SeqToSet(visual.nodes) = HopsFromRoots(visual.depth) \cap units

\* C14 amended: the same, every hop leaving a unit that is in the unit store (a unit
\* missing from the store is neither returned nor traversed).
C14_VisualNodesReachableStored ==
    VisualReturned =>
        SeqToSet(visual.nodes) = StoredHops(SeqToSet(visual.roots), visual.depth) \cap units

C14_Witness ==
    /\ VisualReturned /\ visual.depth = 2
    /\ Len(visual.nodes) >= 3
    /\ U2 \notin units

----------------------------------------------------------------------------
(* KnowledgeUnitExtractor._split_text.  A text is a sequence of characters. *)

MaxTextLen == 6         \* longest text segmented
MaxChunkSize == 3       \* largest max_chunk_size

Alphabet == {"a", ".", " ", "\n"}

\* \s of the two regular expressions
IsSpace(c) == c \in {" ", "\n"}

\* [.!?。！？] of the sentence pattern
IsSentenceEnd(c) == c \in {".", "!", "?"}

Max(S) == CHOOSE x \in S : \A y \in S : y <= x

\* last index of the run of whitespace that starts at i (i - 1 when text[i] is none)
SpaceRunEnd(text, i) ==
    Max({i - 1} \cup {j \in i..Len(text) : \A k \in i..j : IsSpace(text[k])})

\* where a match of \n\s*\n starting at i ends (0: no match at i): \s* is greedy and
\* gives back up to the last newline of the run
ParagraphBreakEnd(text, i) ==
    IF text[i] # "\n" THEN 0
    ELSE LET newlines == {k \in (i + 1)..SpaceRunEnd(text, i + 1) : text[k] = "\n"}
         IN  IF newlines = {} THEN 0 ELSE Max(newlines)

\* re.split(r'\n\s*\n', text), scanning from i with piece collected so far
RECURSIVE SplitParagraphs(_, _, _)
SplitParagraphs(text, i, piece) ==
    IF i > Len(text) THEN <<piece>>
    ELSE IF ParagraphBreakEnd(text, i) # 0
         THEN <<piece>> \o SplitParagraphs(text, ParagraphBreakEnd(text, i) + 1, <<>>)
         ELSE SplitParagraphs(text, i + 1, Append(piece, text[i]))

\* re.split(r'(?<=[.!?。！？])\s+', para): a run of whitespace right after a sentence end
RECURSIVE SplitSentences(_, _, _)
SplitSentences(para, i, piece) ==
    IF i > Len(para) THEN <<piece>>
    ELSE IF i > 1 /\ IsSentenceEnd(para[i - 1]) /\ IsSpace(para[i])
         THEN <<piece>> \o SplitSentences(para, SpaceRunEnd(para, i) + 1, <<>>)
         ELSE SplitSentences(para, i + 1, Append(piece, para[i]))

\* str.strip() of a chunk
StripChunk(s) ==
    LET inner == {i \in 1..Len(s) : ~IsSpace(s[i])}
    IN  IF inner = {} THEN <<>>
        ELSE SubSeq(s, CHOOSE i \in inner : \A j \in inner : i <= j, Max(inner))

\* an over-long sentence kept whole
HardCutWhole(sentence, max_chunk_size) == <<sentence>>

\* for i in range(0, len(sentence), max_chunk_size): sentence[i:i + max_chunk_size]
HardCut(sentence, max_chunk_size) ==
    [k \in 1..((Len(sentence) + max_chunk_size - 1) \div max_chunk_size) |->
        SubSeq(sentence, (k - 1) * max_chunk_size + 1,
               Min(k * max_chunk_size, Len(sentence)))]

\* "for sentence in sentences" (lines 207-223) from sentence i on; temp_chunk is only
\* assigned where the code assigns it
RECURSIVE SentenceLoop(_, _, _, _, _)
SentenceLoop(sentences, i, chunks, temp_chunk, max_chunk_size) ==
    IF i > Len(sentences)
    THEN IF temp_chunk # <<>> THEN Append(chunks, StripChunk(temp_chunk)) ELSE chunks
    ELSE LET sentence == sentences[i]
         IN  IF Len(temp_chunk) + Len(sentence) <= max_chunk_size
             THEN SentenceLoop(sentences, i + 1, chunks, temp_chunk \o sentence \o <<" ">>,
                               max_chunk_size)
             ELSE LET flushed == IF temp_chunk # <<>>
                                 THEN Append(chunks, StripChunk(temp_chunk)) ELSE chunks
                  IN  IF Len(sentence) > max_chunk_size
                      THEN SentenceLoop(sentences, i + 1,
                                        flushed \o HardCut(sentence, max_chunk_size),
                                        temp_chunk, max_chunk_size)
                      ELSE SentenceLoop(sentences, i + 1, flushed, sentence \o <<" ">>,
                                        max_chunk_size)

\* "for para in paragraphs" (lines 196-236) from paragraph i on
RECURSIVE ParagraphLoop(_, _, _, _, _)
ParagraphLoop(paragraphs, i, chunks, current_chunk, max_chunk_size) ==
    IF i > Len(paragraphs)
    THEN IF current_chunk # <<>> THEN Append(chunks, current_chunk) ELSE chunks
    ELSE LET para == paragraphs[i]
         IN  IF Len(para) > max_chunk_size
             THEN ParagraphLoop(paragraphs, i + 1,
                                SentenceLoop(SplitSentences(para, 1, <<>>), 1,
                                             IF current_chunk # <<>>
                                             THEN Append(chunks, current_chunk) ELSE chunks,
                                             <<>>, max_chunk_size),
                                <<>>, max_chunk_size)
             ELSE IF Len(current_chunk) + Len(para) + 2 <= max_chunk_size
             THEN ParagraphLoop(paragraphs, i + 1, chunks,
                                (IF current_chunk # <<>> THEN current_chunk \o <<"\n", "\n">>
                                 ELSE current_chunk) \o para,
                                max_chunk_size)
             ELSE ParagraphLoop(paragraphs, i + 1, Append(chunks, current_chunk), para,
                                max_chunk_size)

\* KnowledgeUnitExtractor._split_text(text, max_chunk_size)
SplitText(text, max_chunk_size) ==
    IF Len(text) <= max_chunk_size THEN <<text>>
    ELSE ParagraphLoop(SplitParagraphs(text, 1, <<>>), 1, <<>>, <<>>, max_chunk_size)

Texts == UNION {[1..n -> Alphabet] : n \in 0..MaxTextLen}

InitIdle ==
    /\ InitStores
    /\ storeRejectsDollar = FALSE
    /\ triples = <<>>
    /\ nextTripleId = 1
    /\ pathQuery = NoQuery
    /\ graph = None
    /\ graphCall = NoGraphCall
    /\ visual = NoVisual

InitSplit ==
    /\ InitIdle
    /\ split \in {[text |-> t, max_chunk_size |-> m, chunks |-> None] :
                    t \in Texts, m \in 1..MaxChunkSize}
    /\ dedup = NoDedup
    /\ imported = NoImport
    /\ pairs = NoPairs
    /\ extraction = NoBatch
    /\ task = NoTask

\* chunks = self._split_text(text, max_chunk_size)
SplitTextCall ==
    /\ split.chunks = None
    /\ split' = [split EXCEPT !.chunks = Some(SplitText(split.text, split.max_chunk_size))]
    /\ UNCHANGED <<storeRejectsDollar, units, unitDocs, triples, nextTripleId, calls,
                   callCount, lastCall, pathQuery, graph, graphCall, visual,
                   dedup, imported, pairs, extraction, task>>

NextSplit == SplitTextCall

SpecSplit == InitSplit /\ [][NextSplit]_vars

----------------------------------------------------------------------------
(* Claims about _split_text *)

RECURSIVE Concat(_)
Concat(ss) == IF ss = <<>> THEN <<>> ELSE Head(ss) \o Concat(Tail(ss))

NoSpace(s) == SelectSeq(s, LAMBDA c : ~IsSpace(c))

Segmented == split.chunks # None

\* C15: the chunks, concatenated in order and with whitespace removed, equal the text
\* with whitespace removed: nothing is dropped, duplicated or reordered.
C15_ChunksReproduceText ==
    Segmented => NoSpace(Concat(split.chunks[1])) = NoSpace(split.text)

\* C16: every chunk of _split_text(T, m) has length at most m, for every T and m >= 1.
C16_ChunksWithinSize ==
    Segmented =>
        \A i \in 1..Len(split.chunks[1]) : Len(split.chunks[1][i]) <= split.max_chunk_size

C16_Witness ==
    /\ Segmented
    /\ Len(split.text) > split.max_chunk_size
    /\ Len(split.chunks[1]) >= 3
    /\ \E i \in 1..Len(split.chunks[1]) :
          Len(split.chunks[1][i]) = split.max_chunk_size

\* C17: the empty text yields no chunks; a non-empty text of length at most the
\* maximum size yields exactly one chunk, equal to the text.
C17_EmptyAndShortText ==
    Segmented =>
        /\ split.text = <<>> => split.chunks[1] = <<>>
        /\ (split.text # <<>> /\ Len(split.text) <= split.max_chunk_size)
              => split.chunks[1] = <<split.text>>

----------------------------------------------------------------------------
(* KnowledgeUnitExtractor._deduplicate_units.  Titles and contents are       *)
(* sequences of characters; a candidate unit carries its position in the     *)
(* input as id.                                                              *)

MaxCandidates == 3      \* most candidate units deduplicated at once

\* str.lower(), character by character
LowerChar(c) == IF c = "A" THEN "a" ELSE IF c = "B" THEN "b" ELSE c
Lower(s) == [i \in 1..Len(s) |-> LowerChar(s[i])]

\* a in b, for strings
IsSubstring(a, b) ==
    \E i \in 0..(Len(b) - Len(a)) : SubSeq(b, i + 1, i + Len(a)) = a

\* _similar_titles(title1, title2, threshold=0.8): the share of the shorter title's
\* characters that occur in the longer one is at least 0.8
SimilarTitles(title1, title2) ==
    LET shorter == IF Len(title1) <= Len(title2) THEN title1 ELSE title2
        longer == IF Len(title1) <= Len(title2) THEN title2 ELSE title1
        common_chars == Cardinality({i \in 1..Len(shorter) : shorter[i] \in SeqToSet(longer)})
    IN  IF shorter = <<>> THEN FALSE
        ELSE common_chars * 10 >= 8 * Len(shorter)

\* the test of line 258 on two lower-cased titles
TitlesMatch(title, existing_title) ==
    \/ IsSubstring(title, existing_title)
    \/ IsSubstring(existing_title, title)
    \/ SimilarTitles(title, existing_title)

\* a merge that always keeps the unit met first
LongerContentNever(unit, existing) ==
    FALSE

\* len(unit.get("content", "")) > len(unique_units[unit_idx].get("content", ""))
LongerContent(unit, existing) ==
    Len(unit.content) > Len(existing.content)

\* "for unit in units" (lines 246-279) from unit i on.  title_map is the dict as
\* the list of its (title, index) items in insertion order; slot records, for every
\* unit met so far, the index of unique_units it went to.
RECURSIVE DeduplicateLoop(_, _, _, _, _)
DeduplicateLoop(units_in, i, unique_units, title_map, slot) ==
    IF i > Len(units_in)
    THEN [unique_units |-> unique_units, slot |-> slot]
    ELSE LET unit == units_in[i]
             title == Lower(unit.title)
             similar == {k \in 1..Len(title_map) : TitlesMatch(title, title_map[k].title)}
         IN  IF title = <<>>
             THEN DeduplicateLoop(units_in, i + 1, Append(unique_units, unit), title_map,
                                  Append(slot, Len(unique_units) + 1))
             ELSE IF similar # {}
             THEN LET unit_idx == title_map[CHOOSE k \in similar : \A j \in similar : k <= j].index
                  IN  DeduplicateLoop(units_in, i + 1,
                          IF LongerContent(unit, unique_units[unit_idx])
                          THEN [unique_units EXCEPT ![unit_idx] = unit]
                          ELSE unique_units,
                          title_map, Append(slot, unit_idx))
             ELSE DeduplicateLoop(units_in, i + 1, Append(unique_units, unit),
                                  Append(title_map, [title |-> title, index |-> Len(unique_units) + 1]),
                                  Append(slot, Len(unique_units) + 1))

\* KnowledgeUnitExtractor._deduplicate_units(units)
DeduplicateUnits(units_in) == DeduplicateLoop(units_in, 1, <<>>, <<>>, <<>>)

Titles == {<<>>, <<"A">>, <<"a">>, <<"a", "b">>, <<"b", "a">>, <<"c">>}
Contents == {<<>>, <<"x">>}

\* the candidate lists of n units
Candidates(n) ==
    { [i \in 1..n |-> [id |-> i, title |-> f[i][1], content |-> f[i][2]]] :
        f \in [1..n -> Titles \X Contents] }

InitDedup ==
    /\ InitIdle
    /\ split = NoSplit
    /\ \E n \in 0..MaxCandidates : \E us \in Candidates(n) :
          dedup = [units |-> us, result |-> None]
    /\ imported = NoImport
    /\ pairs = NoPairs
    /\ extraction = NoBatch
    /\ task = NoTask

\* unique_units = self._deduplicate_units(units)
DeduplicateCall ==
    /\ dedup.result = None
    /\ dedup' = [dedup EXCEPT !.result = Some(DeduplicateUnits(dedup.units))]
    /\ UNCHANGED <<storeRejectsDollar, units, unitDocs, triples, nextTripleId, calls,
                   callCount, lastCall, pathQuery, graph, graphCall, visual,
                   split, imported, pairs, extraction, task>>

NextDedup == DeduplicateCall

SpecDedup == InitDedup /\ [][NextDedup]_vars

----------------------------------------------------------------------------
(* Claims about _deduplicate_units *)

Deduplicated == dedup.result # None

\* units a and b of the input have non-empty titles that are equal ignoring case
SameTitle(a, b) ==
    /\ a < b
    /\ dedup.units[a].title # <<>>
    /\ Lower(dedup.units[a].title) = Lower(dedup.units[b].title)

\* C18: of two candidate units with non-empty titles equal ignoring case, at most one
\* is output, and the unit output for them has a content at least as long as the
\* longer of their contents.
C18_SameTitleMerged ==
    Deduplicated =>
        LET out == dedup.result[1].unique_units
            slot == dedup.result[1].slot
        IN  \A a, b \in 1..Len(dedup.units) :
                SameTitle(a, b) =>
                    /\ Cardinality({k \in 1..Len(out) : out[k].id \in {a, b}}) <= 1
                    /\ slot[a] = slot[b]
                    /\ Len(out[slot[a]].content) >= Len(dedup.units[a].content)
                    /\ Len(out[slot[a]].content) >= Len(dedup.units[b].content)

C18_Witness ==
    /\ Deduplicated
    /\ \E a, b \in 1..Len(dedup.units) :
          /\ SameTitle(a, b)
          /\ dedup.units[a].title # dedup.units[b].title
          /\ Len(dedup.units[b].content) > Len(dedup.units[a].content)
          /\ \E k \in 1..Len(dedup.result[1].unique_units) :
                dedup.result[1].unique_units[k].id = b

----------------------------------------------------------------------------
(* ImportManager._process_file: enhance the importer's units, save them, and  *)
(* hand them with the saved ids to the relation extractor.  A content is      *)
(* represented by its length.                                                 *)

MaxRawUnits == 3            \* most units an imported file yields
EnhanceMinContent == 50     \* shortest content _enhance_unit sends to the model
CanonicalNameLimit == 50    \* longest canonical name

\* \w of the pattern [^\w\s]
IsWordChar(c) == c \in {"a", "b", "v", "A", "B", "_"}

\* re.sub(r'[^\w\s]', '', s)
RECURSIVE RemoveSpecial(_)
RemoveSpecial(s) ==
    IF s = <<>> THEN <<>>
    ELSE IF IsWordChar(Head(s)) \/ IsSpace(Head(s))
         THEN <<Head(s)>> \o RemoveSpecial(Tail(s))
         ELSE RemoveSpecial(Tail(s))

\* re.sub(r'\s+', '_', s) from position i on
RECURSIVE UnderscoreSpaces(_, _)
UnderscoreSpaces(s, i) ==
    IF i > Len(s) THEN <<>>
    ELSE IF IsSpace(s[i])
         THEN <<"_">> \o UnderscoreSpaces(s, SpaceRunEnd(s, i) + 1)
         ELSE <<s[i]>> \o UnderscoreSpaces(s, i + 1)

\* KnowledgeUnitService._generate_canonical_name(title), for titles that have a word
\* character and no CJK ideograph (lines 195-205 and 212-213 are then skipped)
GenerateCanonicalName(title) ==
    LET name == UnderscoreSpaces(StripChunk(RemoveSpecial(Lower(title))), 1)
    IN  IF Len(name) > CanonicalNameLimit THEN SubSeq(name, 1, CanonicalNameLimit) ELSE name

\* KnowledgeUnitExtractor._enhance_unit(unit) where the model answers with the
\* canonical name answer (None: no answer, or an answer without that field)
EnhanceUnit(unit, answer) ==
    IF unit.content_len = 0 \/ unit.content_len < EnhanceMinContent THEN unit
    ELSE IF answer = None THEN unit
    ELSE IF unit.canonical_name = None
         THEN [unit EXCEPT !.canonical_name = answer]
         ELSE unit

\* KnowledgeUnitExtractor.process_units(raw_units)
ProcessUnits(raw_units, answers) ==
    [i \in 1..Len(raw_units) |-> EnhanceUnit(raw_units[i], answers[i])]

\* KnowledgeUnitService.create(unit_data) on the stored units: the new store and
\* the status of the result
ServiceCreate(stored, unit_data) ==
    LET canonical_name == IF unit_data.canonical_name = None
                          THEN GenerateCanonicalName(unit_data.title)
                          ELSE unit_data.canonical_name[1]
    IN  IF \E k \in 1..Len(stored) : stored[k].canonical_name = Some(canonical_name)
        THEN [stored |-> stored, status |-> "duplicate"]
        ELSE [stored |-> Append(stored, [unit_data EXCEPT !.canonical_name = Some(canonical_name)]),
              status |-> "success"]

\* ImportManager._save_units: "for unit in units" from unit i on; unit_ids are the
\* ids of the units created with success
RECURSIVE SaveUnits(_, _, _, _)
SaveUnits(us, i, stored, unit_ids) ==
    IF i > Len(us) THEN [stored |-> stored, unit_ids |-> unit_ids]
    ELSE LET result == ServiceCreate(stored, us[i])
         IN  SaveUnits(us, i + 1, result.stored,
                       IF result.status = "success" THEN Append(unit_ids, us[i].id)
                       ELSE unit_ids)

\* ImportManager._process_file up to the length check of extract_relations:
\* "failed" when that check raises, "relations" when the pairs are built
ProcessFile(raw_units, answers) ==
    LET enhanced_units == ProcessUnits(raw_units, answers)
        saved == SaveUnits(enhanced_units, 1, <<>>, <<>>)
    IN  [raw_units |-> raw_units,
         status |-> IF enhanced_units # <<>> /\ saved.unit_ids # <<>>
                       /\ Len(enhanced_units) # Len(saved.unit_ids)
                    THEN "failed" ELSE "relations",
         persisted |-> saved.stored]

SectionTitles == {<<"A">>, <<"A", " ", "v">>, <<"B">>}
ContentLens == {10, 60}
ModelAnswers == {None, Some(<<"a">>)}

\* the unit lists an importer yields for a file of n sections
RawUnits(n) ==
    { [i \in 1..n |-> [id |-> i, title |-> f[i][1], content_len |-> f[i][2],
                       canonical_name |-> None]] :
        f \in [1..n -> SectionTitles \X ContentLens] }

InitImport ==
    /\ InitIdle
    /\ split = NoSplit
    /\ dedup = NoDedup
    /\ \E n \in 0..MaxRawUnits : \E us \in RawUnits(n) :
          imported = [NoImport EXCEPT !.raw_units = us]
    /\ pairs = NoPairs
    /\ extraction = NoBatch
    /\ task = NoTask

\* asyncio.create_task(self._process_file(...))
ProcessFileCall ==
    /\ imported.status = "none"
    /\ \E answers \in [1..Len(imported.raw_units) -> ModelAnswers] :
          imported' = ProcessFile(imported.raw_units, answers)
    /\ UNCHANGED <<storeRejectsDollar, units, unitDocs, triples, nextTripleId, calls,
                   callCount, lastCall, pathQuery, graph, graphCall, visual,
                   split, dedup, pairs, extraction, task>>

NextImport == ProcessFileCall

SpecImport == InitImport /\ [][NextImport]_vars

----------------------------------------------------------------------------
(* Claims about the import pipeline *)

NearDuplicate(a, b) ==
    TitlesMatch(Lower(imported.raw_units[a].title), Lower(imported.raw_units[b].title))

\* C19: after the import of three sections of which two have near-duplicate titles
\* and the third is unrelated to both, exactly 2 units are persisted, and the
\* persisted unit of the near-duplicate pair has the longer of the two contents.
C19_ImportDeduplicates ==
    (imported.status # "none" /\ Len(imported.raw_units) = 3) =>
        \A a, b, c \in 1..3 :
            (a < b /\ c \notin {a, b} /\ NearDuplicate(a, b)
               /\ ~NearDuplicate(a, c) /\ ~NearDuplicate(b, c)) =>
                /\ Len(imported.persisted) = 2
                /\ \E k \in 1..2 :
                      /\ imported.persisted[k].id \in {a, b}
                      /\ imported.persisted[k].content_len
                           = Max({imported.raw_units[a].content_len,
                                  imported.raw_units[b].content_len})

----------------------------------------------------------------------------
(* RelationExtractor.extract_relations up to the list of unit pairs it sends  *)
(* to extraction.  A unit is its tags and its knowledge domain; titles and    *)
(* contents are left empty.                                                   *)

MaxPairUnits == 15      \* most units handed to extract_relations
MaxPairs == 100         \* self.max_pairs

\* the tag and domain test alone
MayHaveRelationByTagOrDomain(unit1, unit2) ==
    \/ unit1.tags \cap unit2.tags # {}
    \/ unit1.domain # "" /\ unit2.domain # "" /\ unit1.domain = unit2.domain

\* RelationExtractor._may_have_relation(unit1, unit2): the heuristics of lines
\* 98-118, then the default of line 121
MayHaveRelation(unit1, unit2) ==
    \/ unit1.tags \cap unit2.tags # {}
    \/ unit1.domain # "" /\ unit2.domain # "" /\ unit1.domain = unit2.domain
    \/ TRUE

\* the inner loop of _generate_unit_pairs for unit i (1-based): the pairs of unit i
\* with the later units j that may have a relation with it, j ascending
UnitPairsOf(us, unit_ids, i) ==
    LET js == {j \in (i + 1)..Len(us) : MayHaveRelation(us[i], us[j])}
    IN  [k \in 1..Cardinality(js) |->
            [subject |-> unit_ids[i],
             object |-> unit_ids[CHOOSE j \in js : Cardinality({x \in js : x < j}) = k - 1]]]

\* RelationExtractor._generate_unit_pairs: the outer loop from unit i on
RECURSIVE GenerateUnitPairs(_, _, _)
GenerateUnitPairs(us, unit_ids, i) ==
    IF i > Len(us) THEN <<>>
    ELSE UnitPairsOf(us, unit_ids, i) \o GenerateUnitPairs(us, unit_ids, i + 1)

\* the list s turned left by k places
Rotate(s, k) == [i \in 1..Len(s) |-> s[((i - 1 + k) % Len(s)) + 1]]

\* random.shuffle(unit_pairs): every turn of the list and its reverse stand for
\* the permutations the generator can produce
Shuffles(s) == {Rotate(s, k) : k \in 0..(Len(s) - 1)}
                 \cup {Reverse(Rotate(s, k)) : k \in 0..(Len(s) - 1)}

\* [str(i) for i in range(len(units))], the id of unit i being i itself
DefaultUnitIds(us) == [i \in 1..Len(us) |-> i - 1]

\* the outcomes of extract_relations(units, unit_ids) up to line 45
ExtractRelations(us, unit_ids) ==
    IF us = <<>> THEN {[status |-> "returned", submitted |-> <<>>]}
    ELSE LET ids == IF unit_ids = None \/ unit_ids = Some(<<>>)
                    THEN DefaultUnitIds(us) ELSE unit_ids[1]
         IN  IF Len(us) # Len(ids) THEN {[status |-> "raised", submitted |-> <<>>]}
             ELSE LET unit_pairs == GenerateUnitPairs(us, ids, 1)
                  IN  IF Len(unit_pairs) > MaxPairs
                      THEN {[status |-> "returned", submitted |-> SubSeq(shuffled, 1, MaxPairs)] :
                              shuffled \in Shuffles(unit_pairs)}
                      ELSE {[status |-> "returned", submitted |-> unit_pairs]}

\* n units; with tagged, the first two share the tag "algorithms"
PairUnits(n, tagged) ==
    [i \in 1..n |-> [tags |-> IF tagged /\ i <= 2 THEN {"algorithms"} ELSE {},
                     domain |-> ""]]

\* the ids saved for n units, and the same with the last one missing
SavedIds(n) == [i \in 1..n |-> 100 + i]

PairIdChoices(n) ==
    {None, Some(SavedIds(n))} \cup (IF n > 0 THEN {Some(SavedIds(n - 1))} ELSE {})

InitPairs ==
    /\ InitIdle
    /\ split = NoSplit
    /\ dedup = NoDedup
    /\ imported = NoImport
    /\ \E n \in 0..MaxPairUnits : \E tagged \in BOOLEAN : \E ids \in PairIdChoices(n) :
          pairs = [NoPairs EXCEPT !.units = PairUnits(n, tagged), !.unit_ids = ids]
    /\ extraction = NoBatch
    /\ task = NoTask

\* relations = await self.relation_extractor.extract_relations(units, unit_ids)
ExtractRelationsCall ==
    /\ pairs.status = "none"
    /\ \E outcome \in ExtractRelations(pairs.units, pairs.unit_ids) :
          pairs' = [pairs EXCEPT !.status = outcome.status, !.submitted = outcome.submitted]
    /\ UNCHANGED <<storeRejectsDollar, units, unitDocs, triples, nextTripleId, calls,
                   callCount, lastCall, pathQuery, graph, graphCall, visual,
                   split, dedup, imported, extraction, task>>

NextPairs == ExtractRelationsCall

SpecPairs == InitPairs /\ [][NextPairs]_vars

----------------------------------------------------------------------------
(* Claims about the unit pairs *)

\* the ids the pairs are built from, by unit position
PairIdOf(i) ==
    IF pairs.unit_ids = None \/ pairs.unit_ids = Some(<<>>) THEN i - 1
    ELSE pairs.unit_ids[1][i]

\* the positions (i, j) of the units of a submitted pair
PairPositions(p) ==
    CHOOSE ij \in (1..Len(pairs.units)) \X (1..Len(pairs.units)) :
        PairIdOf(ij[1]) = p.subject /\ PairIdOf(ij[2]) = p.object

PairCount == (Len(pairs.units) * (Len(pairs.units) - 1)) \div 2

----------------------------------------------------------------------------
(* RelationExtractor.extract_relations from line 47 on: the pairs go to the   *)
(* model in batches, the calls of a batch run concurrently, and gather hands  *)
(* their results back in the order of the calls.                              *)

MaxBatchPairs == 11     \* most unit pairs extracted from
BatchSize == 10         \* self.batch_size

\* the relations of one answer item, formatted for a pair (lines 146-165)
FormatRelation(subject, object, relation) ==
    IF relation.predicate = "" THEN <<>>
    ELSE <<[subject_id |-> subject, predicate |-> relation.predicate, object_id |-> object,
            bidirectional |-> relation.bidirectional]>>
         \o (IF relation.bidirectional
             THEN <<[subject_id |-> object, predicate |-> relation.predicate,
                     object_id |-> subject, bidirectional |-> TRUE]>>
             ELSE <<>>)

\* RelationExtractor._extract_pair_relations(pair) when the model client does what
\* answer says: it raises, it answers nothing usable, or it answers a list of
\* items, an item that is no dict making relation.get raise inside the try
ExtractPairRelations(pair, answer) ==
    IF answer.kind = "raise" THEN <<>>
    ELSE IF answer.kind = "none" THEN <<>>
    ELSE IF \E r \in 1..Len(answer.relations) : ~answer.relations[r].is_dict THEN <<>>
    ELSE Concat([r \in 1..Len(answer.relations) |->
                    FormatRelation(pair.subject, pair.object, answer.relations[r])])

\* the results of a batch joined last call first
BatchResultsReversed(results) ==
    Concat([k \in 1..Len(results) |-> results[Len(results) + 1 - k][1]])

\* "for relations in batch_results: all_relations.extend(relations)"
BatchResults(results) ==
    Concat([k \in 1..Len(results) |-> results[k][1]])

\* RelationExtractor._post_process(relations) from relation k on, seen being
\* relation_keys
RECURSIVE PostProcessFrom(_, _, _)
PostProcessFrom(relations, k, seen) ==
    IF k > Len(relations) THEN <<>>
    ELSE LET key == <<relations[k].subject_id, relations[k].predicate, relations[k].object_id>>
         IN  IF key \in seen THEN PostProcessFrom(relations, k + 1, seen)
             ELSE <<relations[k]>> \o PostProcessFrom(relations, k + 1, seen \cup {key})

PostProcess(relations) == PostProcessFrom(relations, 1, {})

\* what the model client does for pair k: the pairs in failing fail in the way
\* fail_kind says, every third of the others gets no usable answer, the rest a
\* relation (both ways for even k), every fourth with a blank item before it
GoodItem(k) == [predicate |-> "rel", bidirectional |-> k % 2 = 0, is_dict |-> TRUE]
BlankItem == [predicate |-> "", bidirectional |-> FALSE, is_dict |-> TRUE]
BadItem == [predicate |-> "", bidirectional |-> FALSE, is_dict |-> FALSE]

AnswerFor(k, failing, fail_kind) ==
    IF k \in failing
    THEN IF fail_kind = "raise" THEN [kind |-> "raise", relations |-> <<>>]
         ELSE [kind |-> "relations", relations |-> <<GoodItem(k), BadItem>>]
    ELSE IF k % 3 = 0 THEN [kind |-> "none", relations |-> <<>>]
    ELSE IF k % 4 = 1 THEN [kind |-> "relations", relations |-> <<BlankItem, GoodItem(k)>>]
    ELSE [kind |-> "relations", relations |-> <<GoodItem(k)>>]

\* the first n pairs of six units
BatchPairs(n) == SubSeq(GenerateUnitPairs(PairUnits(6, FALSE), SavedIds(6), 1), 1, n)

FailChoices == SUBSET {1, BatchSize, BatchSize + 1}

InitBatch ==
    /\ InitIdle
    /\ split = NoSplit
    /\ dedup = NoDedup
    /\ imported = NoImport
    /\ pairs = NoPairs
    /\ \E n \in 0..MaxBatchPairs : \E failing \in FailChoices : \E fail_kind \in {"raise", "item"} :
          extraction = [NoBatch EXCEPT
                          !.unit_pairs = BatchPairs(n),
                          !.answers = [k \in 1..n |-> AnswerFor(k, failing, fail_kind)],
                          !.i = 1,
                          !.status = "running"]
    /\ task = NoTask

BatchUnchanged ==
    UNCHANGED <<storeRejectsDollar, units, unitDocs, triples, nextTripleId, calls,
                callCount, lastCall, pathQuery, graph, graphCall, visual,
                split, dedup, imported, pairs, task>>

BatchInFlight == extraction.results # <<>>

\* batch = unit_pairs[i:i + self.batch_size]; the calls of the batch are started
StartBatch ==
    /\ extraction.status = "running"
    /\ ~BatchInFlight
    /\ extraction.i <= Len(extraction.unit_pairs)
    /\ LET last == Min(extraction.i + BatchSize - 1, Len(extraction.unit_pairs))
       IN  extraction' = [extraction EXCEPT
                            !.pending = extraction.i..last,
                            !.results = [k \in 1..(last - extraction.i + 1) |-> None]]
    /\ BatchUnchanged

\* the call for pair k returns
CompletePair(k) ==
    /\ k \in extraction.pending
    /\ extraction' = [extraction EXCEPT
                        !.pending = @ \ {k},
                        !.results[k - extraction.i + 1] =
                            Some(ExtractPairRelations(extraction.unit_pairs[k], extraction.answers[k])),
                        !.overtaken = @ \/ \E j \in extraction.pending : j < k]
    /\ BatchUnchanged

\* gather returns: the results are added to all_relations, and the loop goes on
GatherBatch ==
    /\ BatchInFlight
    /\ extraction.pending = {}
    /\ extraction' = [extraction EXCEPT
                        !.all_relations = @ \o BatchResults(extraction.results),
                        !.results = <<>>,
                        !.i = @ + BatchSize]
    /\ BatchUnchanged

\* processed_relations = self._post_process(all_relations); return
ReturnRelations ==
    /\ extraction.status = "running"
    /\ ~BatchInFlight
    /\ extraction.i > Len(extraction.unit_pairs)
    /\ extraction' = [extraction EXCEPT
                        !.processed = PostProcess(extraction.all_relations),
                        !.status = "returned"]
    /\ BatchUnchanged

NextBatch ==
    \/ StartBatch
    \/ \E k \in 1..(MaxBatchPairs + 1) : CompletePair(k)
    \/ GatherBatch
    \/ ReturnRelations

SpecBatch == InitBatch /\ [][NextBatch]_vars

----------------------------------------------------------------------------
(* Claims about the batch loop *)

PairFails(k) ==
    \/ extraction.answers[k].kind = "raise"
    \/ \E r \in 1..Len(extraction.answers[k].relations) : ~extraction.answers[k].relations[r].is_dict

\* what pair k is due to contribute
DueRelations(k) ==
    IF PairFails(k) THEN <<>>
    ELSE ExtractPairRelations(extraction.unit_pairs[k], extraction.answers[k])

\* C21: when extract_relations returns, the relations before duplicate removal are
\* those of the pairs whose call did not fail, in the order the pairs were
\* submitted, and a pair whose call failed contributes none; what is returned is
\* that list with duplicates removed.
C21_FailuresIsolated ==
    extraction.status = "returned" =>
        /\ extraction.all_relations
             = Concat([k \in 1..Len(extraction.unit_pairs) |-> DueRelations(k)])
        /\ \A k \in 1..Len(extraction.unit_pairs) :
              PairFails(k) =>
                 \A r \in 1..Len(extraction.all_relations) :
                    {extraction.all_relations[r].subject_id, extraction.all_relations[r].object_id}
                       # {extraction.unit_pairs[k].subject, extraction.unit_pairs[k].object}
        /\ SeqToSet(extraction.processed) = SeqToSet(extraction.all_relations)

C21_Witness ==
    /\ extraction.status = "returned"
    /\ extraction.overtaken
    /\ Len(extraction.unit_pairs) > BatchSize
    /\ PairFails(1)
    /\ ~PairFails(2)
    /\ ~PairFails(BatchSize + 1)
    /\ \E r \in 1..Len(extraction.processed) :
          /\ extraction.processed[r].subject_id = extraction.unit_pairs[BatchSize + 1].subject
          /\ extraction.processed[r].object_id = extraction.unit_pairs[BatchSize + 1].object

----------------------------------------------------------------------------
(* ImportManager: the registry active_imports, the calls import_file,         *)
(* get_import_status, cancel_import and delete_import, and the background     *)
(* task _process_file of one import.  The task gives way to the other calls   *)
(* at each await; the calls themselves run without a break.  pc is the await  *)
(* the task is suspended at.                                                  *)

MaxTaskUnits == 2       \* most units the imported file yields

TheImport == 1          \* the id import_file gives the import under study
UnknownImport == 2      \* an id that names no import

ImportIds == {TheImport, UnknownImport}

\* a record that starts out at full progress
NewImportRecordFull ==
    [status |-> "pending", progress |-> 100, error |-> None, unit_count |-> None]

\* the record import_file puts into active_imports (lines 59-71)
NewImportRecord ==
    [status |-> "pending", progress |-> 0, error |-> None, unit_count |-> None]

\* an update that never touches the status of a cancelled import
UpdateImportStatusUnlessCancelled(imports, import_id, status, progress, error, unit_count) ==
    IF import_id \in DOMAIN imports /\ imports[import_id].status # "cancelled"
    THEN [imports EXCEPT ![import_id] =
            [status |-> status, progress |-> progress,
             error |-> IF error # None THEN error ELSE @.error,
             unit_count |-> IF unit_count # None THEN unit_count ELSE @.unit_count]]
    ELSE imports

\* ImportManager._update_import_status(import_id, status, progress, additional_data),
\* additional_data giving error and unit_count when they are not None
UpdateImportStatus(imports, import_id, status, progress, error, unit_count) ==
    IF import_id \in DOMAIN imports
    THEN [imports EXCEPT ![import_id] =
            [status |-> status, progress |-> progress,
             error |-> IF error # None THEN error ELSE @.error,
             unit_count |-> IF unit_count # None THEN unit_count ELSE @.unit_count]]
    ELSE imports

\* the units of the file: short contents, so that _enhance_unit returns them as they are
TaskRawUnits(n) ==
    { [i \in 1..n |-> [id |-> i, title |-> f[i], content_len |-> 10, canonical_name |-> None]] :
        f \in [1..n -> SectionTitles] }

InitTask ==
    /\ InitIdle
    /\ InitExtraction
    /\ extraction = NoBatch
    /\ task = NoTask

TaskUnchanged ==
    UNCHANGED <<storeRejectsDollar, units, unitDocs, triples, nextTripleId, calls,
                callCount, lastCall, pathQuery, graph, graphCall, visual,
                split, dedup, imported, pairs, extraction>>

\* import_file(file_name, content, file_type, owner_id): an unsupported type is an
\* error, a file already in the registry a duplicate; otherwise the record is made
\* and the task created.  One import is accepted; the same file imported again
\* after its record was deleted is left out.
ImportFile ==
    /\ \E file_type \in {"txt", "pdf"} : \E n \in 0..MaxTaskUnits : \E us \in TaskRawUnits(n) :
          IF file_type = "pdf"
          THEN task' = [task EXCEPT !.result = [op |-> "import_file", status |-> "error"]]
          ELSE IF TheImport \in DOMAIN task.imports
          THEN task' = [task EXCEPT !.result = [op |-> "import_file", status |-> "duplicate"]]
          ELSE /\ task.pc = "none"
               /\ task' = [task EXCEPT !.imports = <<NewImportRecord>>,
                                       !.pc = "created",
                                       !.raw_units = us,
                                       !.result = [op |-> "import_file", status |-> "processing"]]
    /\ TaskUnchanged

\* get_import_status(import_id)
GetImportStatus(import_id) ==
    /\ task' = [task EXCEPT !.result =
                  [op |-> "get_import_status",
                   status |-> IF import_id \in DOMAIN task.imports
                              THEN task.imports[import_id].status ELSE "none"]]
    /\ TaskUnchanged

\* a cancel_import that cancels whatever the status is
CancelResultAnyStatus(imports, import_id) ==
    IF import_id \notin DOMAIN imports THEN [imports |-> imports, status |-> "error"]
    ELSE [imports |-> [imports EXCEPT ![import_id].status = "cancelled"], status |-> "success"]

\* the registry after cancel_import(import_id), and its result
CancelResult(imports, import_id) ==
    IF import_id \notin DOMAIN imports THEN [imports |-> imports, status |-> "error"]
    ELSE IF imports[import_id].status \notin {"pending", "processing"}
         THEN [imports |-> imports, status |-> "error"]
         ELSE [imports |-> [imports EXCEPT ![import_id].status = "cancelled"], status |-> "success"]

\* cancel_import(import_id)
CancelImport(import_id) ==
    /\ task' = [task EXCEPT !.imports = CancelResult(task.imports, import_id).imports,
                            !.result = [op |-> "cancel_import",
                                        status |-> CancelResult(task.imports, import_id).status]]
    /\ TaskUnchanged

\* delete_import(import_id)
DeleteImport(import_id) ==
    /\ task' = [task EXCEPT !.imports = IF import_id \in DOMAIN task.imports THEN <<>> ELSE @,
                            !.result = [op |-> "delete_import", status |-> "success"]]
    /\ TaskUnchanged

\* an except branch that ends the task without a word in the registry
FailedSilently(t, error) ==
    [t EXCEPT !.raised = error, !.pc = "done"]

\* the except branch of _process_file (lines 185-197)
Failed(t, error) ==
    [t EXCEPT !.imports = UpdateImportStatus(t.imports, TheImport, "failed", 100, Some(error), None),
              !.raised = error,
              !.pc = "done"]

\* the task starts: lines 141-145, up to the await of importer.import_file
TaskBegin ==
    /\ task.pc = "created"
    /\ task' = [task EXCEPT !.imports = UpdateImportStatus(@, TheImport, "processing", 5, None, None),
                            !.pc = "import_file"]
    /\ TaskUnchanged

\* importer.import_file returns or raises: lines 145-153
ImporterReturns ==
    /\ task.pc = "import_file"
    /\ \E ok \in BOOLEAN :
          task' = IF ok
                  THEN [task EXCEPT
                          !.imports = UpdateImportStatus(
                                          UpdateImportStatus(@, TheImport, "processing", 20, None, None),
                                          TheImport, "processing", 40, None, None),
                          !.pc = "process_units"]
                  ELSE Failed(task, "importer")
    /\ TaskUnchanged

\* process_units returns or raises: lines 153-157
ProcessUnitsReturns ==
    /\ task.pc = "process_units"
    /\ \E ok \in BOOLEAN :
          task' = IF ok
                  THEN [task EXCEPT
                          !.enhanced_units = ProcessUnits(task.raw_units, [i \in 1..Len(task.raw_units) |-> None]),
                          !.imports = UpdateImportStatus(@, TheImport, "processing", 60, None, None),
                          !.pc = "save_units"]
                  ELSE Failed(task, "extractor")
    /\ TaskUnchanged

\* _save_units returns or raises: lines 157-161
SaveUnitsReturns ==
    /\ task.pc = "save_units"
    /\ \E ok \in BOOLEAN :
          task' = IF ok
                  THEN LET saved == SaveUnits(task.enhanced_units, 1, <<>>, <<>>)
                       IN  [task EXCEPT
                              !.unit_ids = saved.unit_ids,
                              !.persisted = saved.stored,
                              !.imports = UpdateImportStatus(@, TheImport, "processing", 75, None, None),
                              !.pc = "extract_relations"]
                  ELSE Failed(task, "unit store")
    /\ TaskUnchanged

\* extract_relations(enhanced_units, unit_ids) raises at its length check
RelationsRaise(enhanced_units, unit_ids) ==
    /\ enhanced_units # <<>>
    /\ unit_ids # <<>>
    /\ Len(enhanced_units) # Len(unit_ids)

\* extract_relations returns or raises: lines 161-165
ExtractRelationsReturns ==
    /\ task.pc = "extract_relations"
    /\ task' = IF RelationsRaise(task.enhanced_units, task.unit_ids)
               THEN Failed(task, "length")
               ELSE [task EXCEPT
                       !.imports = UpdateImportStatus(@, TheImport, "processing", 85, None, None),
                       !.pc = "save_relations"]
    /\ TaskUnchanged

\* _save_relations returns or raises: lines 165-170; the owner_id of line 170 is
\* read from the record, a KeyError when the record is gone
SaveRelationsReturns ==
    /\ task.pc = "save_relations"
    /\ \E ok \in BOOLEAN :
          task' = IF ok
                  THEN IF TheImport \in DOMAIN task.imports
                       THEN [task EXCEPT
                               !.imports = UpdateImportStatus(@, TheImport, "processing", 95, None, None),
                               !.pc = "create_graph"]
                       ELSE Failed(task, "KeyError")
                  ELSE Failed(task, "triple store")
    /\ TaskUnchanged

\* _create_graph returns or raises: lines 169-183
CreateGraphReturns ==
    /\ task.pc = "create_graph"
    /\ \E ok \in BOOLEAN :
          task' = IF ok
                  THEN [task EXCEPT
                          !.imports = UpdateImportStatus(@, TheImport, "completed", 100, None,
                                                         Some(Len(task.unit_ids))),
                          !.pc = "done"]
                  ELSE Failed(task, "graph store")
    /\ TaskUnchanged

\* a step of the background task
TaskStep ==
    \/ TaskBegin
    \/ ImporterReturns
    \/ ProcessUnitsReturns
    \/ SaveUnitsReturns
    \/ ExtractRelationsReturns
    \/ SaveRelationsReturns
    \/ CreateGraphReturns

NextTask ==
    \/ ImportFile
    \/ \E import_id \in ImportIds : GetImportStatus(import_id)
    \/ \E import_id \in ImportIds : CancelImport(import_id)
    \/ \E import_id \in ImportIds : DeleteImport(import_id)
    \/ TaskBegin
    \/ ImporterReturns
    \/ ProcessUnitsReturns
    \/ SaveUnitsReturns
    \/ ExtractRelationsReturns
    \/ SaveRelationsReturns
    \/ CreateGraphReturns

SpecTask == InitTask /\ [][NextTask]_vars

\* every call the task awaits returns or raises, and the event loop runs the task
SpecTaskFair == SpecTask /\ WF_vars(TaskStep)

----------------------------------------------------------------------------
(* Claims about the import task and the registry *)

Registered == TheImport \in DOMAIN task.imports

Record == task.imports[TheImport]

\* C22: once a stage of _process_file has raised, the task is over and stays over,
\* and the status record, as long as it exists, is "failed" at progress 100 with
\* the error attached and is not changed again.
C22_FailureIsTerminal ==
    /\ [](task.raised # "" =>
            /\ task.pc = "done"
            /\ Registered =>
                  /\ Record.status = "failed"
                  /\ Record.progress = 100
                  /\ Record.error = Some(task.raised))
    /\ [][task.pc = "done" =>
            /\ task'.pc = "done"
            /\ task'.raised = task.raised
            /\ (Registered /\ TheImport \in DOMAIN task'.imports) =>
                  task'.imports = task.imports]_vars

C22_Witness ==
    /\ task.raised = "length"
    /\ Registered
    /\ Record.status = "failed"
    /\ task.result = [op |-> "cancel_import", status |-> "error"]

\* C24: cancel_import succeeds exactly when the import is registered with status
\* "pending" or "processing", and then sets the status to "cancelled" and changes
\* nothing else; in every other case it returns an error and leaves the registry
\* as it was.
C24_CancelOnlyInFlight ==
    [][\A import_id \in ImportIds :
          CancelImport(import_id) =>
             IF import_id \in DOMAIN task.imports
                /\ task.imports[import_id].status \in {"pending", "processing"}
             THEN /\ task'.result.status = "success"
                  /\ task'.imports = [task.imports EXCEPT ![import_id].status = "cancelled"]
             ELSE /\ task'.result.status = "error"
                  /\ task'.imports = task.imports]_vars

C24_Witness ==
    /\ Registered
    /\ Record.status = "completed"
    /\ task.result = [op |-> "cancel_import", status |-> "error"]

\* C25: a status record that is "cancelled" stays "cancelled" as long as the record
\* exists.
C25_CancelledStays ==
    [][(Registered /\ Record.status = "cancelled" /\ TheImport \in DOMAIN task'.imports) =>
          task'.imports[TheImport].status = "cancelled"]_vars

Terminal == {"completed", "failed"}

\* C26: an accepted import eventually has, and keeps, status "completed" or "failed"
\* unless its record is deleted, when every awaited call returns or raises, whether
\* or not cancel_import is called on the way.
C26_ImportTerminates ==
    (task.pc # "none") ~> [](~Registered \/ Record.status \in Terminal)

C26_Witness ==
    /\ task.pc = "done"
    /\ Registered
    /\ Record.status = "completed"
    /\ task.result = [op |-> "cancel_import", status |-> "success"]

\* C27: the progress of the import record is within 0..100 in every state, is 100
\* when the status is "completed" or "failed", and never decreases from one state
\* of the record to the next.
C27_ProgressMonotone ==
    /\ [](Registered =>
            /\ Record.progress \in 0..100
            /\ Record.status \in Terminal => Record.progress = 100)
    /\ [][(Registered /\ TheImport \in DOMAIN task'.imports) =>
            task'.imports[TheImport].progress >= Record.progress]_vars

C27_Witness ==
    /\ Registered
    /\ Record.status = "cancelled"
    /\ Record.progress = 75
    /\ task.result.op = "get_import_status"

\* C28: an import that persisted at least one unit and had another rejected as a
\* duplicate, and in which no store or model call raised, ends "completed" with
\* unit_count the number of units persisted, the ids handed to relation extraction
\* being those of the units at the same positions.
C28_DuplicateStillCompletes ==
    (/\ task.pc = "done"
     /\ Registered
     /\ task.raised \in {"", "length"}
     /\ Len(task.persisted) >= 1
     /\ Len(task.unit_ids) < Len(task.enhanced_units)) =>
        /\ Record.status = "completed"
        /\ Record.unit_count = Some(Len(task.persisted))
        /\ \A k \in 1..Len(task.unit_ids) : task.unit_ids[k] = task.enhanced_units[k].id

----------------------------------------------------------------------------
(* Claims about the validation of SemanticTripleService.create *)

\* triple data that lacks a required field, has a blank predicate, names one unit
\* as subject and as object, or names a unit that is not among the units us
MustBeRejected(data, us) ==
    \/ ~({"subject_id", "predicate", "object_id"} \subseteq DOMAIN data)
    \/ Strip(data.predicate) = ""
    \/ ObjectId(data.subject_id) = ObjectId(data.object_id)
    \/ ObjectId(data.subject_id) \notin us
    \/ ObjectId(data.object_id) \notin us

\* C23: a create of triple data that lacks subject_id, predicate or object_id, has a
\* blank predicate, has the subject as its object, or names a unit that does not
\* exist returns an error and leaves the triples and the units' counters as they
\* were.
C23_InvalidCreateRejected ==
    lastCall # None =>
        LET c == lastCall[1]
        IN  (c.op = "create" /\ c.solo /\ MustBeRejected(c.data, c.pre_units)) =>
                /\ c.status = "error"
                /\ c.post_triples = c.pre_triples
                /\ c.post_docs = c.pre_docs

----------------------------------------------------------------------------
(* Claims about the shape of a path returned by find_path *)

\* step names a triple of ts that leads from unit a to unit b in its direction
StepJoins(ts, step, a, b) ==
    \E i \in 1..Len(ts) :
        /\ ts[i].id = ObjectId(step.triple_id)
        /\ \/ step.direction = "outgoing" /\ ts[i].subject_id = a /\ ts[i].object_id = b
           \/ step.direction = "incoming" /\ ts[i].object_id = a /\ ts[i].subject_id = b

\* path is a chain of stored triples from unit a to unit b that visits no unit twice
SimpleChain(ts, path, a, b) ==
    \E us \in [1..(Len(path) + 1) -> UnitOids] :
        /\ us[1] = a
        /\ us[Len(path) + 1] = b
        /\ \A k \in 1..Len(path) : StepJoins(ts, path[k], us[k], us[k + 1])
        /\ \A k, l \in 1..(Len(path) + 1) : k # l => us[k] # us[l]

\* C29: a path returned by find_path(start, end, d) is a chain of stored triples that
\* starts at start, follows each step in its direction, visits no unit twice and
\* ends at end.
C29_PathIsSimpleChain ==
    (Asked /\ pathQuery.path # None) =>
        SimpleChain(triples, pathQuery.path[1], StartOid, EndOid)

----------------------------------------------------------------------------
(* Claims about the edges returned by get_visual_data *)

\* the stored triple an edge was made from
EdgeTriple(edge) == CHOOSE t \in SeqToSet(triples) : t.id = edge

\* C30: in a result of get_visual_data the source and the target of every edge are
\* among the nodes, also when a unit that triples still name has been deleted.
C30_EdgesJoinNodes ==
    VisualReturned =>
        \A k \in 1..Len(visual.edges) :
            /\ EdgeTriple(visual.edges[k]).subject_id \in SeqToSet(visual.nodes)
            /\ EdgeTriple(visual.edges[k]).object_id \in SeqToSet(visual.nodes)

====
